---- MODULE Spec2Model ----
(***************************************************************************)
(* Batch job orchestrator of source-stack-desktop (src-tauri/src/core):    *)
(* CoreService (service.rs) with its queue, its single consumer, the       *)
(* cancellation registry, and JsonJobStore (job_store.rs).                 *)
(*                                                                         *)
(* Time is counted in hours, the unit of job_retention_hours.  A timestamp *)
(* t (created_at, completed_at) is kept as the hours elapsed since it was  *)
(* taken, Utc::now() - t, capped at job_retention_hours + 1: the only read *)
(* of a timestamp is cleanup_expired_jobs comparing now - t with the       *)
(* retention.  Of started_at and duration_seconds, which nothing reads     *)
(* back, only the presence is kept.  Tick lets an hour pass.  Store reads  *)
(* and writes and remote calls that the source propagates with `?` have a  *)
(* failing outcome here.                                                   *)
(***************************************************************************)
EXTENDS Integers, Sequences, FiniteSets, TLC

\* ------------------------------------------------------------------ bounds
MaxJobs == 2        \* start_batch_job calls made in a behaviour
MaxFiles == 2       \* files a folder listing returns at most
MaxRetries == 3     \* settings.max_retries at most
MaxListed == 3      \* files in the folder of a job that runs in several batches

\* the smallest retention JsonJobStore accepts (retention_hours.max(1))
job_retention_hours == 1

JobIds == 1..MaxJobs
None == 0 - 1

\* elapsed hours are told apart up to the first value past the retention
Old == job_retention_hours + 1

\* --------------------------------------------------------------- variables
VARIABLES
    settings,             \* RuntimeSettings the consumer clones per job
    drive,                \* the files list_resume_files finds in the folder
    statusFile,           \* jobs/<id>/status.json, per job id
    resultsFile,          \* jobs/<id>/results.json, per job id
    queue,                \* the unbounded mpsc channel of BatchJobWorkItem
    cancellation_tokens,  \* CoreService.cancellation_tokens: ids with an entry
    cancelled,            \* is_cancelled() of the token created for each job
    calls,                \* start_batch_job calls, one per job id to be generated
    canceller,            \* a cancel_job call in flight
    w,                    \* the consumer task: process_queue / process_batch_job
    returned,             \* job ids start_batch_job has returned
    enqueued,             \* job ids in the order they were sent to the queue
    entered,              \* job ids in the order run_batch_pipeline was entered
    terminalWrites,       \* per job: terminal status writes done
    sinceAccepted,        \* per job: hours since start_batch_job saved Pending
    cancelTrue,           \* job ids for which cancel_job returned true
    remote,               \* per job: calls made to the provider, by kind
    keyring,              \* the keyring entry holding the GoogleTokenEnvelope
    auth,                 \* get_access_token_non_interactive calls in flight
    lastStep,             \* the GoogleAuthService step taken last
    cleared,              \* a refresh cleared the keyring, no sign-in since
    manual_sessions,      \* GoogleAuthService.manual_sessions, by session id
    issued,               \* manual sessions created so far
    manual,               \* the complete_manual_sign_in calls in flight
    interactive,          \* a sign_in call in flight
    listing               \* the ids the last list_jobs call returned

signInVars == <<manual_sessions, issued, manual, interactive>>
authVars == <<keyring, auth, lastStep, cleared, signInVars>>
envVars == <<settings, drive, authVars, listing>>
storeVars == <<statusFile, resultsFile>>
registryVars == <<cancellation_tokens, cancelled>>
clientVars == <<calls, canceller, returned>>
historyVars == <<enqueued, entered, terminalWrites, sinceAccepted, cancelTrue>>
vars == <<settings, drive, statusFile, resultsFile, queue, cancellation_tokens,
          cancelled, calls, canceller, w, returned, enqueued, entered,
          terminalWrites, sinceAccepted, cancelTrue, remote, keyring, auth,
          lastStep, cleared, manual_sessions, issued, manual, interactive,
          listing>>

\* ------------------------------------------------------------------- types
Terminal == {"Completed", "Failed", "Revoked"}

\* no status.json in the job's directory
NoStatus ==
    [status |-> "absent", progress |-> 0, total_files |-> 0,
     processed_files |-> 0, spreadsheet_id |-> "", results_count |-> None,
     error |-> "", created_at |-> None, started_at |-> FALSE,
     completed_at |-> None, duration_seconds |-> FALSE]

\* no results.json in the job's directory
NoResults == [present |-> FALSE, items |-> <<>>]

Min(a, b) == IF a < b THEN a ELSE b

\* -------------------------------------------------------------- job store
\* JsonJobStore::load_status, as get_job_status uses it
get_job_status(j) ==
    IF statusFile[j].status = "absent" THEN "JobNotFound" ELSE "Ok"

\* get_job_results without the JobNotCompleted check
get_job_results_NoStateCheck(j) ==
    IF resultsFile[j].present
    THEN [result |-> "Ok", items |-> resultsFile[j].items]
    ELSE IF statusFile[j].status = "absent"
    THEN [result |-> "JobNotFound", items |-> <<>>]
    ELSE [result |-> "Ok", items |-> <<>>]

\* get_job_results: the persisted results if results.json exists; otherwise
\* JobNotFound without a status, JobNotCompleted unless the status is
\* Completed, and an empty list for a Completed job without results
get_job_results(j) ==
    IF resultsFile[j].present
    THEN [result |-> "Ok", items |-> resultsFile[j].items]
    ELSE IF statusFile[j].status = "absent"
    THEN [result |-> "JobNotFound", items |-> <<>>]
    ELSE IF statusFile[j].status # "Completed"
    THEN [result |-> "JobNotCompleted", items |-> <<>>]
    ELSE [result |-> "Ok", items |-> <<>>]

\* now.signed_duration_since(reference_time), where reference_time is
\* status.completed_at.or(status.created_at).unwrap_or(now)
SinceReference(s) ==
    IF s.completed_at # None THEN s.completed_at
    ELSE IF s.created_at # None THEN s.created_at ELSE 0

\* the sweep with >= in place of > : a record exactly job_retention_hours old
\* is removed as well
ExpiredJobs_AtRetention ==
    {j \in JobIds :
        /\ statusFile[j].status # "absent"
        /\ SinceReference(statusFile[j]) >= job_retention_hours}

\* job directories the sweep removes at the current time
ExpiredJobs ==
    {j \in JobIds :
        /\ statusFile[j].status # "absent"
        /\ SinceReference(statusFile[j]) > job_retention_hours}

\* the store after cleanup_expired_jobs removed the directories in S
Swept(f, S, empty) == [j \in JobIds |-> IF j \in S THEN empty ELSE f[j]]

\* request.folder_id as a sequence of characters; char::is_whitespace holds
\* of the space and the tab among them
IsWhitespace(c) == c \in {" ", "\t"}

FolderIds == {<<>>, <<" ">>, <<"\t", " ">>, <<"a">>}

\* ------------------------------------------------------------ file errors
\* what process_single_file_once can fail with: download_file's
\* CoreError::GoogleApi for a response that is not a success, or the
\* reqwest::Error of send() and bytes(), which carries no status
GoogleApi(status) == [kind |-> "GoogleApi", status |-> status, cause |-> ""]

Reqwest(cause) == [kind |-> "reqwest", status |-> None, cause |-> cause]

NoError == [kind |-> "none", status |-> None, cause |-> ""]

FileErrors ==
    {GoogleApi(s) : s \in {401, 404, 429, 500, 503}}
    \cup {Reqwest(c) : c \in {"timeout", "connect", "body"}}

\* the errors drawn where the kind of failure makes no difference
SomeFileErrors == {GoogleApi(404), GoogleApi(503)}

\* is_retryable_error, with CoreError::is_retryable
is_retryable_error_Always(e) == TRUE

is_retryable_error(e) ==
    IF e.kind = "GoogleApi" THEN e.status = 429 \/ e.status >= 500
    ELSE IF e.kind = "reqwest"
    THEN \/ e.cause \in {"timeout", "connect"}
         \/ e.status # None /\ (e.status = 429 \/ e.status >= 500)
    ELSE FALSE

\* the row of HEADER_COLUMNS, told apart from the rows of files 1, 2, ..
HeaderRow == 0

\* the calls a pipeline makes: get_access_token_non_interactive,
\* list_resume_files, create_spreadsheet, append_rows, download_file; for
\* each append_rows call of a batch, the files whose rows it carried; and
\* the rows of the job's spreadsheet from A1 down (HeaderRow or the file a
\* row was built from; a spreadsheet given by the request starts empty)
NoCalls ==
    [token |-> 0, list |-> 0, create |-> 0, append |-> 0, download |-> 0,
     rows |-> <<>>, values |-> <<>>]

\* ------------------------------------------- GoogleSheetsClient::append_rows
\* PUT values/A1: the rows are written from A1 down, over what is there
Put(values, rows) == rows \o SubSeq(values, Len(rows) + 1, Len(values))

\* has_data: the check request succeeded and row 1 holds a value
has_data(values, check_ok) == check_ok /\ values # <<>>

\* the sheet after append_rows(rows, skip_headers) succeeded; check_ok tells
\* whether the GET of A1:Z1 had a success status.  (Every row the pipeline
\* sends has a non-empty cell.)
append_rows(values, rows, skip_headers, check_ok) ==
    IF rows = <<>> THEN values
    ELSE IF ~has_data(values, check_ok) THEN Put(values, rows)
    ELSE values \o (IF skip_headers THEN rows ELSE Tail(rows))

\* ------------------------------------------------------------------- auth
\* the callers of get_access_token_non_interactive: start_batch_job and the
\* consumer's run_batch_pipeline, which run on different tasks
Callers == {"start_batch_job", "run_batch_pipeline"}

\* is_expiring_within(Duration::from_secs(5 * 60)), in minutes
refresh_window == 5

\* the longest lifetime, in minutes, the provider grants an access token
MaxMinutes == 7

AccessTokens == {"a1", "a2"}
RefreshTokens == {"r1", "r2"}
\* Option<String>::None of refresh_token
NoRefreshToken == "None"

\* keyring::Error::NoEntry: nothing is stored
NoEntry == [entry |-> FALSE]

\* GoogleTokenEnvelope; expires_at_utc is kept as minutes from now, and the
\* email, which no decision reads, is left out
GoogleTokenEnvelope(a, r, t) ==
    [access_token |-> a, refresh_token |-> r, expires_at_utc |-> t]

Envelopes ==
    {GoogleTokenEnvelope(a, r, t) : a \in AccessTokens,
        r \in RefreshTokens \cup {NoRefreshToken}, t \in 0..MaxMinutes}

is_expiring_within_Strict(token, duration) == token.expires_at_utc < duration

is_expiring_within(token, duration) == token.expires_at_utc <= duration

status_HidesExpired ==
    IF keyring # NoEntry /\ keyring.expires_at_utc > 0
    THEN [signed_in |-> TRUE, expires_at |-> keyring.expires_at_utc]
    ELSE [signed_in |-> FALSE, expires_at |-> None]

\* status(): signed_in and expires_at of AuthStatus
status ==
    IF keyring # NoEntry
    THEN [signed_in |-> TRUE, expires_at |-> keyring.expires_at_utc]
    ELSE [signed_in |-> FALSE, expires_at |-> None]

\* Text is a sequence of words. to_ascii_lowercase and str::contains are
\* given on the words the provider's error bodies are made of.
Lower(word) ==
    CASE word = "Invalid_Grant" -> "invalid_grant"
      [] word = "INVALID_TOKEN" -> "invalid_token"
      [] word = "Token" -> "token"
      [] word = "Missing" -> "missing"
      [] word = "Unauthorized" -> "unauthorized"
      [] word = "Bad" -> "bad"
      [] word = "Request" -> "request"
      [] OTHER -> word

to_ascii_lowercase(text) == [i \in DOMAIN text |-> Lower(text[i])]

WordContains(word, needle) ==
    \/ word = needle
    \/ needle = "token" /\ word \in {"invalid_token", "refresh_token"}

contains(text, needle) == \E i \in DOMAIN text : WordContains(text[i], needle)

\* a response body that is a JSON object with these two optional members
OAuthErrorResponse(error, error_description) ==
    [json |-> TRUE, error |-> error, error_description |-> error_description]

\* a response body that is not JSON
PlainBody(text) == [json |-> FALSE, text |-> text]

\* the characters of a body, as body.to_ascii_lowercase() searches them
BodyText(body) ==
    IF body.json
    THEN <<"error">> \o body.error \o <<"error_description">>
             \o body.error_description
    ELSE body.text

\* bodies the token endpoint sends with a failure; an absent member is <<>>,
\* as unwrap_or_default makes it
ErrorBodies ==
    {OAuthErrorResponse(<<"invalid_grant">>, <<"Token", "expired">>),
     OAuthErrorResponse(<<"Invalid_Grant">>, <<>>),
     OAuthErrorResponse(<<"invalid_request">>,
                        <<"Missing", "parameter:", "refresh_token">>),
     OAuthErrorResponse(<<"invalid_client">>, <<"Unauthorized">>),
     PlainBody(<<"INVALID_TOKEN">>),
     PlainBody(<<"Bad", "Request">>)}

\* a body that carries an invalid_grant or invalid_token marker
HasMarker(body) ==
    \/ contains(to_ascii_lowercase(BodyText(body)), "invalid_grant")
    \/ contains(to_ascii_lowercase(BodyText(body)), "invalid_token")

is_reauth_response(code, body) ==
    IF code # 400 /\ code # 401 THEN FALSE
    ELSE
        \/ /\ body.json
           /\ \/ contains(to_ascii_lowercase(body.error), "invalid_grant")
              \/ contains(to_ascii_lowercase(body.error), "invalid_token")
              \/ contains(to_ascii_lowercase(body.error_description),
                          "invalid_grant")
              \/ contains(to_ascii_lowercase(body.error_description), "token")
        \/ contains(to_ascii_lowercase(BodyText(body)), "invalid_grant")
        \/ contains(to_ascii_lowercase(BodyText(body)), "invalid_token")

\* TokenResponse
TokenResponse(a, r, expires_in) ==
    [json |-> TRUE, access_token |-> a, refresh_token |-> r,
     expires_in |-> expires_in]

\* what the token endpoint answers a refresh with
Http(code, body) == [kind |-> "http", status |-> code, body |-> body]
Transport == [kind |-> "transport", status |-> 0, body |-> PlainBody(<<>>)]
NoReply == [kind |-> "none", status |-> 0, body |-> PlainBody(<<>>)]

Replies ==
    {Http(200, TokenResponse(a, r, e)) : a \in AccessTokens,
        r \in RefreshTokens \cup {NoRefreshToken},
        e \in {refresh_window, MaxMinutes}}
    \cup {Http(200, PlainBody(<<"Bad", "Request">>))}
    \cup {Http(code, b) : code \in {400, 401, 403, 500}, b \in ErrorBodies}
    \cup {Transport}

is_success(code) == code >= 200 /\ code <= 299

\* results: Ok(value) and Err(error); CoreError::Auth carries its code, and a
\* provider error the status it was built from
Ok(value) == [ok |-> TRUE, value |-> value, status |-> 0]
Err(code) == [ok |-> FALSE, value |-> code, status |-> 0]
ProviderError(code) == [ok |-> FALSE, value |-> "ProviderError", status |-> code]
NoResult == [ok |-> FALSE, value |-> "", status |-> 0]

refresh_token_NoCarry(stored, reply) ==
    IF reply.kind = "transport" THEN Err("reqwest")
    ELSE IF ~is_success(reply.status)
    THEN IF is_reauth_response(reply.status, reply.body)
         THEN Err("ReauthRequired")
         ELSE ProviderError(reply.status)
    ELSE IF ~reply.body.json THEN Err("serde_json")
    ELSE Ok(GoogleTokenEnvelope(reply.body.access_token,
                                reply.body.refresh_token,
                                reply.body.expires_in))

\* refresh_token: the envelope or the error it returns for a reply
refresh_token(stored, reply) ==
    IF reply.kind = "transport" THEN Err("reqwest")
    ELSE IF ~is_success(reply.status)
    THEN IF is_reauth_response(reply.status, reply.body)
         THEN Err("ReauthRequired")
         ELSE ProviderError(reply.status)
    ELSE IF ~reply.body.json THEN Err("serde_json")
    ELSE Ok(GoogleTokenEnvelope(
                reply.body.access_token,
                IF reply.body.refresh_token # NoRefreshToken
                THEN reply.body.refresh_token
                ELSE stored,
                reply.body.expires_in))

is_reauth_error(result) == ~result.ok /\ result.value = "ReauthRequired"

IdleCall == [pc |-> "idle", refresh_token |-> NoRefreshToken]

\* MANUAL_SESSION_TTL_SECONDS and LOOPBACK_WAIT_SECONDS are not modelled in
\* seconds: a session lives MANUAL_SESSION_TTL minutes
MANUAL_SESSION_TTL == 10

\* the manual sessions begin_manual_sign_in can create
MaxSessions == 2
SessionIds == 1..MaxSessions

\* no entry in manual_sessions under a session id
NoSession == [present |-> FALSE, state |-> 0, expires_at |-> 0]

\* ManualAuthSession: its state nonce and the minutes until expires_at; the
\* nonce of session k is k, the nonce of the interactive flow is another one
ManualAuthSession(state, expires_at) ==
    [present |-> TRUE, state |-> state, expires_at |-> expires_at]

InteractiveState == MaxSessions + 1

\* a state member that is absent or empty
NoState == 0

\* What reaches parse_callback_url_or_code: nothing but whitespace, a bare
\* authorization code, something starting with http:// that is no URL, or a
\* URL with its code, state and error query members ("" when absent).
EmptyInput == [kind |-> "empty", code |-> "", state |-> NoState, error |-> ""]
RawCode == [kind |-> "raw", code |-> "c", state |-> NoState, error |-> ""]
BadUrl == [kind |-> "badurl", code |-> "", state |-> NoState, error |-> ""]
CallbackUrl(code, state, error) ==
    [kind |-> "url", code |-> code, state |-> state, error |-> error]
NoCallback == [kind |-> "none", code |-> "", state |-> NoState, error |-> ""]

CallbackUrls ==
    {CallbackUrl(code, state, error) :
        code \in {"", "c"},
        state \in {NoState} \cup SessionIds \cup {InteractiveState},
        error \in {"", "access_denied"}}

\* what the user can paste into complete_manual_sign_in
ManualInputs == {EmptyInput, RawCode, BadUrl} \cup CallbackUrls

\* the requests the loopback listener can receive
LoopbackRequests == {BadUrl} \cup CallbackUrls

IdleFlow == [pc |-> "idle", session_id |-> 0, state |-> NoState, code |-> ""]

\* the tasks that call complete_manual_sign_in (tauri commands run
\* concurrently)
Completions == {"first", "second"}

NoStep ==
    [op |-> "", caller |-> "", reply |-> NoReply, result |-> NoResult,
     input |-> NoCallback, session_id |-> 0]

\* ------------------------------------------------------------------- init
IdleWorker ==
    [pc |-> "recv", job |-> 0, sheet |-> "", created_at |-> None,
     completed_at |-> None, files |-> <<>>,
     fstate |-> <<>>, batch |-> 0, batch_results |-> <<>>, results |-> <<>>,
     processed_count |-> 0, total_files |-> 0, err |-> ""]

\* the listings list_resume_files can return: files with or without an id
Listings == UNION {[1..n -> {"id", "noid"}] : n \in 0..MaxFiles}

\* the state after CoreService::new, before any command; `callers` are the
\* start_batch_job calls that will be made
Start(callers) ==
    /\ statusFile = [j \in JobIds |-> NoStatus]
    /\ resultsFile = [j \in JobIds |-> NoResults]
    /\ queue = <<>>
    /\ cancellation_tokens = {}
    /\ cancelled = [j \in JobIds |-> FALSE]
    /\ calls = [j \in JobIds |->
                   [pc |-> IF j \in callers THEN "new" ELSE "unused",
                    folder_id |-> <<>>, sheet |-> ""]]
    /\ canceller = [pc |-> "idle", job |-> 0]
    /\ w = IdleWorker
    /\ returned = {}
    /\ enqueued = <<>>
    /\ entered = <<>>
    /\ terminalWrites = [j \in JobIds |-> 0]
    /\ sinceAccepted = [j \in JobIds |-> None]
    /\ cancelTrue = {}
    /\ remote = [j \in JobIds |-> NoCalls]
    /\ auth = [c \in Callers |-> IdleCall]
    /\ lastStep = NoStep
    /\ cleared = FALSE
    /\ manual_sessions = [k \in SessionIds |-> NoSession]
    /\ issued = 0
    /\ manual = [c \in Completions |-> IdleFlow]
    /\ interactive = IdleFlow
    /\ listing = <<>>

\* one batch job over any folder, under any sanitized settings
Init ==
    /\ settings \in [max_concurrent_requests : 1..MaxFiles,
                     spreadsheet_batch_size : 1..MaxFiles,
                     max_retries : {2}]
    /\ drive \in Listings
    /\ keyring = NoEntry
    /\ Start({1})

\* ------------------------------------------------------- start_batch_job
\* JobStatus written by start_batch_job (service.rs 203-216)
PendingStatus(sheet) ==
    [status |-> "Pending", progress |-> 0, total_files |-> 0,
     processed_files |-> 0, spreadsheet_id |-> sheet, results_count |-> None,
     error |-> "", created_at |-> 0, started_at |-> FALSE,
     completed_at |-> None, duration_seconds |-> FALSE]

\* program order of start_batch_job after the token check:
\* cleanup_expired_jobs, save_status(pending), queue_tx.send, return Ok(job_id)
StartNext_SendFirst(pc) ==
    CASE pc = "cleanup" -> "send"
      [] pc = "send" -> "save"
      [] pc = "save" -> "done"

StartNext(pc) ==
    CASE pc = "cleanup" -> "save"
      [] pc = "save" -> "send"
      [] pc = "send" -> "done"

\* the call moves on; reaching "done" is `Ok(job_id)`
StartStep(j) ==
    /\ calls' = [calls EXCEPT ![j].pc = StartNext(@)]
    /\ returned' = IF StartNext(calls[j].pc) = "done"
                   THEN returned \cup {j} ELSE returned

StartFail(j, why) ==
    /\ calls' = [calls EXCEPT ![j].pc = why]
    /\ UNCHANGED returned

\* str::trim: the text without its leading and trailing whitespace
trim_start(s) ==
    LET first == {k \in 1..Len(s) : ~IsWhitespace(s[k])} IN
    IF first = {} THEN <<>>
    ELSE SubSeq(s, CHOOSE k \in first : \A m \in first : k <= m, Len(s))

trim_end(s) ==
    LET last == {k \in 1..Len(s) : ~IsWhitespace(s[k])} IN
    IF last = {} THEN <<>>
    ELSE SubSeq(s, 1, CHOOSE k \in last : \A m \in last : k >= m)

trim_Nothing(s) == s

trim(s) == trim_end(trim_start(s))

\* folder_id.trim().is_empty(): InvalidRequest
start_batch_job_invalid(j, folder_id) ==
    /\ calls[j].pc = "new"
    /\ trim(folder_id) = <<>>
    /\ calls' = [calls EXCEPT ![j].pc = "invalid", ![j].folder_id = folder_id]
    /\ UNCHANGED returned
    /\ UNCHANGED <<envVars, remote, storeVars, queue, registryVars, canceller,
                   w, historyVars>>

\* the request is valid and get_access_token_non_interactive returns a token;
\* sheet is request.spreadsheet_id: "" (None or empty) or an existing sheet
start_batch_job_accept(j, sheet, folder_id) ==
    /\ calls[j].pc = "new"
    /\ trim(folder_id) # <<>>
    /\ calls' = [calls EXCEPT ![j] = [pc |-> "cleanup", folder_id |-> folder_id,
                                      sheet |-> sheet]]
    /\ UNCHANGED <<envVars, remote, storeVars, queue, registryVars, canceller,
                   w, returned, historyVars>>

\* get_access_token_non_interactive fails (sign-in or re-auth required, other)
start_batch_job_no_token(j, folder_id) ==
    /\ calls[j].pc = "new"
    /\ trim(folder_id) # <<>>
    /\ calls' = [calls EXCEPT ![j].pc = "failed", ![j].folder_id = folder_id]
    /\ UNCHANGED returned
    /\ UNCHANGED <<envVars, remote, storeVars, queue, registryVars, canceller,
                   w, historyVars>>

\* cleanup_expired_jobs removes every expired job directory
start_batch_job_cleanup(j) ==
    /\ calls[j].pc = "cleanup"
    /\ statusFile' = Swept(statusFile, ExpiredJobs, NoStatus)
    /\ resultsFile' = Swept(resultsFile, ExpiredJobs, NoResults)
    /\ StartStep(j)
    /\ UNCHANGED <<envVars, remote, queue, registryVars, canceller, w,
                   historyVars>>

\* cleanup_expired_jobs fails part way: some expired directories are removed
start_batch_job_cleanup_fails(j) ==
    /\ calls[j].pc = "cleanup"
    /\ \E S \in SUBSET ExpiredJobs :
          /\ S # ExpiredJobs \/ S = {}
          /\ statusFile' = Swept(statusFile, S, NoStatus)
          /\ resultsFile' = Swept(resultsFile, S, NoResults)
    /\ StartFail(j, "failed")
    /\ UNCHANGED <<envVars, remote, queue, registryVars, canceller, w,
                   historyVars>>

\* save_status(&pending) for the freshly generated job id
start_batch_job_save(j) ==
    /\ calls[j].pc = "save"
    /\ statusFile' = [statusFile EXCEPT ![j] = PendingStatus(calls[j].sheet)]
    /\ sinceAccepted' = [sinceAccepted EXCEPT ![j] = 0]
    /\ StartStep(j)
    /\ UNCHANGED <<envVars, remote, resultsFile, queue, registryVars, canceller,
                   w, enqueued, entered, terminalWrites, cancelTrue>>

start_batch_job_save_fails(j) ==
    /\ calls[j].pc = "save"
    /\ StartFail(j, "failed")
    /\ UNCHANGED <<envVars, remote, storeVars, queue, registryVars, canceller,
                   w, historyVars>>

\* queue_tx.send(BatchJobWorkItem { job_id, request })
start_batch_job_send(j) ==
    /\ calls[j].pc = "send"
    /\ queue' = Append(queue, [job_id |-> j, folder_id |-> calls[j].folder_id,
                                sheet |-> calls[j].sheet])
    /\ enqueued' = Append(enqueued, j)
    /\ StartStep(j)
    /\ UNCHANGED <<envVars, remote, storeVars, registryVars, canceller, w, entered,
                   terminalWrites, sinceAccepted, cancelTrue>>

\* ---------------------------------------------------------------- list_jobs
\* the job directories under jobs_root: a directory exists once save_status
\* or save_results has written into it (create_dir_all)
Directories(statuses, results) ==
    {j \in JobIds : statuses[j].status # "absent" \/ results[j].present}

\* ids.sort_by(|a, b| b.cmp(a)): the directory names, greatest first.  The
\* order of JobIds stands for the order of the names, which are the random
\* UUIDs of start_batch_job.
RECURSIVE sort_descending(_)
sort_descending(ids) ==
    IF ids = {} THEN <<>>
    ELSE LET greatest == CHOOSE a \in ids : \A b \in ids : b <= a
         IN <<greatest>> \o sort_descending(ids \ {greatest})

\* list_jobs: the retention sweep, then the names of the directories left
ListJobs ==
    /\ statusFile' = Swept(statusFile, ExpiredJobs, NoStatus)
    /\ resultsFile' = Swept(resultsFile, ExpiredJobs, NoResults)
    /\ listing' = sort_descending(Directories(statusFile', resultsFile'))
    /\ UNCHANGED <<settings, drive, authVars, remote, queue, registryVars,
                   clientVars, w, historyVars>>

\* ------------------------------------------------------------- cancel_job
\* a registry that also answers for a job still waiting to be dequeued
lookup_Accepted(j) ==
    j \in cancellation_tokens \/ statusFile[j].status = "Pending"

\* map.get(job_id) under the registry lock: is there a token for the job
lookup(j) == j \in cancellation_tokens

\* the token is found and cloned
cancel_job_found(j) ==
    /\ canceller.pc = "idle"
    /\ lookup(j)
    /\ canceller' = [pc |-> "found", job |-> j]
    /\ UNCHANGED <<envVars, remote, storeVars, queue, registryVars, calls, w,
                   returned, historyVars>>

\* no entry for job_id: return Ok(false); the call leaves nothing behind but
\* the id it was asked about, kept here as the last one answered false
cancel_job_not_found(j) ==
    /\ canceller.pc = "idle"
    /\ ~lookup(j)
    /\ canceller' = [pc |-> "idle", job |-> j]
    /\ UNCHANGED <<envVars, remote, storeVars, queue, registryVars, calls, w,
                   returned, historyVars>>

\* a cancel_job that also takes the entry out of the registry
cancel_job_signal_Removes ==
    /\ canceller.pc = "found"
    /\ cancelled' = [cancelled EXCEPT ![canceller.job] = TRUE]
    /\ cancellation_tokens' = cancellation_tokens \ {canceller.job}
    /\ cancelTrue' = cancelTrue \cup {canceller.job}
    /\ canceller' = [pc |-> "idle", job |-> 0]
    /\ UNCHANGED <<envVars, remote, storeVars, queue, calls, w,
                   returned, enqueued, entered, terminalWrites, sinceAccepted>>

\* cancel_token.cancel(); return Ok(true)
cancel_job_signal ==
    /\ canceller.pc = "found"
    /\ cancelled' = [cancelled EXCEPT ![canceller.job] = TRUE]
    /\ cancelTrue' = cancelTrue \cup {canceller.job}
    /\ canceller' = [pc |-> "idle", job |-> 0]
    /\ UNCHANGED <<envVars, remote, storeVars, queue, cancellation_tokens, calls, w,
                   returned, enqueued, entered, terminalWrites, sinceAccepted>>

\* ------------------------------------------------------------------ clock
\* a timestamp one hour later
Later(t) == IF t = None THEN None ELSE Min(t + 1, Old)

Tick ==
    /\ statusFile' = [j \in JobIds |->
          [statusFile[j] EXCEPT !.created_at = Later(@),
                                !.completed_at = Later(@)]]
    /\ w' = [w EXCEPT !.created_at = Later(@), !.completed_at = Later(@)]
    /\ sinceAccepted' = [j \in JobIds |-> Later(sinceAccepted[j])]
    /\ UNCHANGED <<envVars, remote, resultsFile, queue, registryVars, clientVars,
                   enqueued, entered, terminalWrites, cancelTrue>>

\* ---------------------------------------------------------- process_queue
\* queue_rx.recv(): the work item the consumer takes, and what stays queued
recv_newest(q) == [item |-> q[Len(q)], rest |-> SubSeq(q, 1, Len(q) - 1)]

recv(q) == [item |-> Head(q), rest |-> Tail(q)]

\* while let Some(work_item) = queue_rx.recv().await; started_at = Utc::now()
process_queue_recv ==
    /\ w.pc = "recv"
    /\ queue # <<>>
    /\ queue' = recv(queue).rest
    /\ w' = [IdleWorker EXCEPT !.pc = "load",
                               !.job = recv(queue).item.job_id,
                               !.sheet = recv(queue).item.sheet]
    /\ UNCHANGED <<envVars, remote, storeVars, registryVars, clientVars,
                   historyVars>>

\* ------------------------------------------------------ process_batch_job
\* order of the steps of process_batch_job once run_batch_pipeline returned:
\* remove the cancellation token, then write the results and the terminal
\* status; "recv" is the return to process_queue
ExitNext_RemoveLast(pc, ok) ==
    CASE pc = "pipeline" -> IF ok THEN "t_results" ELSE "t_fail"
      [] pc = "t_results" -> "t_status"
      [] pc = "t_status" -> "remove"
      [] pc = "t_fail" -> "remove"
      [] pc = "remove" -> "recv"

ExitNext(pc, ok) ==
    CASE pc = "pipeline" -> "remove"
      [] pc = "remove" -> IF ok THEN "t_results" ELSE "t_fail"
      [] pc = "t_results" -> "t_status"
      [] pc = "t_status" -> "recv"
      [] pc = "t_fail" -> "recv"

\* the consumer after the step at rec.pc; completed_at = Utc::now() is taken
\* on entering the match on the pipeline's result
Advance(rec) ==
    LET n == ExitNext(rec.pc, rec.err = "") IN
    IF n = "recv" THEN IdleWorker
    ELSE [rec EXCEPT !.pc = n,
                     !.completed_at = IF n \in {"t_results", "t_fail"}
                                      THEN 0 ELSE @]

\* run_batch_pipeline returns Ok(()) (why = "") or Err(why)
PipelineExit(rec, why) == Advance([rec EXCEPT !.pc = "pipeline", !.err = why])

\* a `?` in process_batch_job itself: return Err to process_queue
ReturnErr == IdleWorker

\* load_status(job_id)?.and_then(|s| s.created_at).or(Some(Utc::now())),
\* then cancellation_tokens.insert(job_id, token) and run_batch_pipeline
process_batch_job_load ==
    /\ w.pc = "load"
    /\ w' = [w EXCEPT !.pc = "p_start",
                      !.created_at =
                          IF statusFile[w.job].created_at # None
                          THEN statusFile[w.job].created_at ELSE 0]
    /\ cancellation_tokens' = cancellation_tokens \cup {w.job}
    /\ entered' = Append(entered, w.job)
    /\ UNCHANGED <<envVars, remote, storeVars, queue, cancelled, clientVars,
                   enqueued, terminalWrites, sinceAccepted, cancelTrue>>

\* load_status fails reading or parsing an existing status.json
process_batch_job_load_fails ==
    /\ w.pc = "load"
    /\ statusFile[w.job].status # "absent"
    /\ w' = ReturnErr
    /\ UNCHANGED <<envVars, remote, storeVars, queue, registryVars, clientVars,
                   historyVars>>

\* ----------------------------------------------------- run_batch_pipeline
\* the consumer calls the provider for the job it is processing
Called(kind) == remote' = [remote EXCEPT ![w.job][kind] = @ + 1]

\* a Processing JobStatus as run_batch_pipeline builds it
ProcessingStatus(progress, total, processed, count) ==
    [status |-> "Processing", progress |-> progress, total_files |-> total,
     processed_files |-> processed, spreadsheet_id |-> w.sheet,
     results_count |-> count, error |-> "", created_at |-> w.created_at,
     started_at |-> TRUE, completed_at |-> None,
     duration_seconds |-> FALSE]

\* save_status of the pipeline start
pipeline_start ==
    /\ w.pc = "p_start"
    /\ statusFile' = [statusFile EXCEPT
                         ![w.job] = ProcessingStatus(0, 0, 0, None)]
    /\ w' = [w EXCEPT !.pc = "p_token"]
    /\ UNCHANGED <<envVars, remote, resultsFile, queue, registryVars,
                   clientVars, historyVars>>

pipeline_start_fails ==
    /\ w.pc = "p_start"
    /\ w' = PipelineExit(w, "status write failed")
    /\ UNCHANGED <<envVars, remote, storeVars, queue, registryVars, clientVars,
                   historyVars>>

\* get_access_token_non_interactive(settings)
pipeline_token ==
    /\ w.pc = "p_token"
    /\ w' = [w EXCEPT !.pc = "p_list"]
    /\ Called("token")
    /\ UNCHANGED <<envVars, storeVars, queue, registryVars, clientVars,
                   historyVars>>

pipeline_token_fails ==
    /\ w.pc = "p_token"
    /\ \E why \in {"sign-in required", "re-auth required", "provider error"} :
          w' = PipelineExit(w, why)
    /\ Called("token")
    /\ UNCHANGED <<envVars, storeVars, queue, registryVars, clientVars,
                   historyVars>>

\* list_resume_files returns at least one file
pipeline_list ==
    /\ w.pc = "p_list"
    /\ Len(drive) > 0
    /\ w' = [w EXCEPT
                !.pc = IF w.sheet = "" THEN "p_create" ELSE "p_status2",
                !.files = drive,
                !.total_files = Len(drive),
                !.fstate = [i \in 1..Len(drive) |->
                               [st |-> "queued", tries |-> 0, err |-> NoError]]]
    /\ Called("list")
    /\ UNCHANGED <<envVars, storeVars, queue, registryVars, clientVars,
                   historyVars>>

\* drive_files.is_empty(): save_results(&[]) and return Ok(()), not an Err
pipeline_list_empty_IsError ==
    /\ w.pc = "p_list"
    /\ drive = <<>>
    /\ w' = PipelineExit(w, "no files")
    /\ Called("list")
    /\ UNCHANGED <<envVars, storeVars, queue, registryVars, clientVars,
                   historyVars>>

pipeline_list_empty ==
    /\ w.pc = "p_list"
    /\ drive = <<>>
    /\ resultsFile' = [resultsFile EXCEPT
                          ![w.job] = [present |-> TRUE, items |-> <<>>]]
    /\ w' = PipelineExit(w, "")
    /\ Called("list")
    /\ UNCHANGED <<envVars, statusFile, queue, registryVars,
                   clientVars, historyVars>>

\* the listing is empty and save_results(&[]) fails
pipeline_list_empty_fails ==
    /\ w.pc = "p_list"
    /\ drive = <<>>
    /\ w' = PipelineExit(w, "results write failed")
    /\ Called("list")
    /\ UNCHANGED <<envVars, storeVars, queue, registryVars, clientVars,
                   historyVars>>

pipeline_list_fails ==
    /\ w.pc = "p_list"
    /\ w' = PipelineExit(w, "listing failed")
    /\ Called("list")
    /\ UNCHANGED <<envVars, storeVars, queue, registryVars, clientVars,
                   historyVars>>

\* create_spreadsheet
pipeline_create ==
    /\ w.pc = "p_create"
    /\ w' = [w EXCEPT !.pc = "p_header"]
    /\ Called("create")
    /\ UNCHANGED <<envVars, storeVars, queue, registryVars, clientVars,
                   historyVars>>

pipeline_create_fails ==
    /\ w.pc = "p_create"
    /\ w' = PipelineExit(w, "create failed")
    /\ Called("create")
    /\ UNCHANGED <<envVars, storeVars, queue, registryVars, clientVars,
                   historyVars>>

\* append_rows(HEADER_COLUMNS, false); *spreadsheet_id = Some(created_sheet)
pipeline_header ==
    /\ w.pc = "p_header"
    /\ w' = [w EXCEPT !.pc = "p_status2", !.sheet = "created"]
    /\ \E check_ok \in BOOLEAN :
          remote' = [remote EXCEPT
                        ![w.job].append = @ + 1,
                        ![w.job].values =
                            append_rows(@, <<HeaderRow>>, FALSE, check_ok)]
    /\ UNCHANGED <<envVars, storeVars, queue, registryVars, clientVars,
                   historyVars>>

pipeline_header_fails ==
    /\ w.pc = "p_header"
    /\ w' = PipelineExit(w, "append failed")
    /\ Called("append")
    /\ UNCHANGED <<envVars, storeVars, queue, registryVars, clientVars,
                   historyVars>>

\* save_status once the files are enumerated: total_files is reported
pipeline_enumerated ==
    /\ w.pc = "p_status2"
    /\ statusFile' = [statusFile EXCEPT
                         ![w.job] = ProcessingStatus(0, w.total_files, 0, None)]
    /\ w' = [w EXCEPT !.pc = "b_check", !.batch = 1]
    /\ UNCHANGED <<envVars, remote, resultsFile, queue, registryVars,
                   clientVars, historyVars>>

pipeline_enumerated_fails ==
    /\ w.pc = "p_status2"
    /\ w' = PipelineExit(w, "status write failed")
    /\ UNCHANGED <<envVars, remote, storeVars, queue, registryVars, clientVars,
                   historyVars>>

\* ------------------------------------------------- the batch loop (511-584)
\* the whole listing in one batch, whatever spreadsheet_batch_size is
ChunkSize_Unbounded == MaxListed + 1

\* chunk_size = settings.spreadsheet_batch_size.max(1)
ChunkSize == IF settings.spreadsheet_batch_size < 1 THEN 1
             ELSE settings.spreadsheet_batch_size

\* drive_files.chunks(chunk_size): the file indices of batch b
BatchFiles(b) ==
    {i \in 1..w.total_files : (b - 1) * ChunkSize < i /\ i <= b * ChunkSize}

\* the batch that holds file i
BatchOf(i) == ((i - 1) \div ChunkSize) + 1

\* buffer_unordered(max_concurrency): futures polled at the same time
InFlightLimit_Unbounded == MaxFiles + 1

InFlightLimit == IF settings.max_concurrent_requests < 1 THEN 1
                 ELSE settings.max_concurrent_requests

InFlight == {i \in 1..w.total_files : w.fstate[i].st = "running"}

\* a cancellation that is also observed while the files of a batch run
batch_cancelled_MidBatch ==
    /\ w.pc \in {"b_check", "b_run"}
    /\ cancelled[w.job]
    /\ w' = PipelineExit(w, "job canceled")
    /\ UNCHANGED <<envVars, remote, storeVars, queue, registryVars, clientVars,
                   historyVars>>

\* if cancellation_token.is_cancelled() { return Err("job canceled") }
batch_cancelled ==
    /\ w.pc = "b_check"
    /\ cancelled[w.job]
    /\ w' = PipelineExit(w, "job canceled")
    /\ UNCHANGED <<envVars, remote, storeVars, queue, registryVars, clientVars,
                   historyVars>>

\* the batch's stream of per-file futures is built and polled
batch_begin ==
    /\ w.pc = "b_check"
    /\ ~cancelled[w.job]
    /\ w' = [w EXCEPT !.pc = "b_run", !.batch_results = <<>>]
    /\ UNCHANGED <<envVars, remote, storeVars, queue, registryVars, clientVars,
                   historyVars>>

\* ParsedCandidate of file i: "parsed" (process_single_file_once returned Ok),
\* "error" (drive_file_id set, errors non-empty), "noid" (Missing file ID)
Candidate(i, kind) == [file |-> i, kind |-> kind]

FileDone(i, kind) ==
    w' = [w EXCEPT !.fstate[i].st = "done",
                   !.batch_results = Append(@, Candidate(i, kind))]

\* buffer_unordered takes the next file of the batch, in listing order, while
\* fewer than max_concurrency are in flight
CanStart(i) ==
    /\ w.pc = "b_run"
    /\ i \in BatchFiles(w.batch)
    /\ w.fstate[i].st = "queued"
    /\ \A k \in BatchFiles(w.batch) : k < i => w.fstate[k].st # "queued"
    /\ Cardinality(InFlight) < InFlightLimit

\* process_single_file_with_retry starts for a file that has an id
file_start(i) ==
    /\ CanStart(i)
    /\ w.files[i] = "id"
    /\ w' = [w EXCEPT !.fstate[i].st = "running", !.fstate[i].tries = 1]
    /\ Called("download")
    /\ UNCHANGED <<envVars, storeVars, queue, registryVars, clientVars,
                   historyVars>>

\* file.id.trim().is_empty(): the candidate is returned at once
file_missing_id(i) ==
    /\ CanStart(i)
    /\ w.files[i] = "noid"
    /\ FileDone(i, "noid")
    /\ UNCHANGED <<envVars, remote, storeVars, queue, registryVars, clientVars,
                   historyVars>>

\* process_single_file_once returns Ok(candidate)
file_parsed(i) ==
    /\ w.pc = "b_run"
    /\ i \in InFlight
    /\ FileDone(i, "parsed")
    /\ UNCHANGED <<envVars, remote, storeVars, queue, registryVars, clientVars,
                   historyVars>>

\* is_last_attempt = attempt + 1 >= settings.max_retries, where the loop
\* variable attempt is the number of earlier calls, tries - 1
is_last_attempt(tries) == tries >= settings.max_retries

\* process_single_file_once fails with e, retryable and not on the last
\* attempt: sleep, then the next attempt
file_retry(i, e) ==
    /\ w.pc = "b_run"
    /\ i \in InFlight
    /\ is_retryable_error(e) /\ ~is_last_attempt(w.fstate[i].tries)
    /\ w' = [w EXCEPT !.fstate[i].tries = @ + 1, !.fstate[i].err = e]
    /\ Called("download")
    /\ UNCHANGED <<envVars, storeVars, queue, registryVars, clientVars,
                   historyVars>>

\* process_single_file_once fails with e, not retryable or on the last
\* attempt: the candidate carries "Error processing file: {e}" (the error
\* does not leave the procedure)
file_gives_up_Propagates(i, e) ==
    /\ w.pc = "b_run"
    /\ i \in InFlight
    /\ ~(is_retryable_error(e) /\ ~is_last_attempt(w.fstate[i].tries))
    /\ w' = PipelineExit(w, "file failed")
    /\ UNCHANGED <<envVars, remote, storeVars, queue, registryVars, clientVars,
                   historyVars>>

file_gives_up(i, e) ==
    /\ w.pc = "b_run"
    /\ i \in InFlight
    /\ ~(is_retryable_error(e) /\ ~is_last_attempt(w.fstate[i].tries))
    /\ w' = [w EXCEPT !.fstate[i].st = "done", !.fstate[i].err = e,
                      !.batch_results = Append(@, Candidate(i, "error"))]
    /\ UNCHANGED <<envVars, remote, storeVars, queue, registryVars, clientVars,
                   historyVars>>

\* .collect().await returned: every file of the batch has its candidate
BatchCollected ==
    /\ w.pc = "b_run"
    /\ \A i \in BatchFiles(w.batch) : w.fstate[i].st = "done"

\* rows of the batch that are not blank: a candidate with a drive_file_id has
\* a non-empty "Resume Link" cell
Rows(cands) == {k \in 1..Len(cands) : cands[k].kind # "noid"}

\* the rows of a batch in the order of its candidates, each named by its file
RowsOf(cands) ==
    [k \in 1..Len(SelectSeq(cands, LAMBDA c : c.kind # "noid")) |->
        SelectSeq(cands, LAMBDA c : c.kind # "noid")[k].file]

\* the append_rows call of a batch with the rows of `cands`: whether the rows
\* were written (`sent`), and how the check of A1:Z1 went
DataAppended(cands, sent, check_ok) ==
    remote' = [remote EXCEPT
                  ![w.job].append = @ + 1,
                  ![w.job].rows = Append(@, {cands[k].file : k \in Rows(cands)}),
                  ![w.job].values =
                      IF sent THEN append_rows(@, RowsOf(cands), TRUE, check_ok)
                      ELSE @]

\* append_rows(rows, true); *processed_count += rows.len(); results.extend
batch_append ==
    /\ BatchCollected
    /\ Rows(w.batch_results) # {}
    /\ w' = [w EXCEPT !.pc = "b_status",
                      !.processed_count = @ + Cardinality(Rows(w.batch_results)),
                      !.results = @ \o w.batch_results]
    /\ DataAppended(w.batch_results, TRUE, TRUE)
    /\ UNCHANGED <<envVars, storeVars, queue, registryVars, clientVars,
                   historyVars>>

\* append_rows where the GET of A1:Z1 has no success status (has_data is
\* false): the rows are PUT at A1
batch_append_unchecked ==
    /\ BatchCollected
    /\ Rows(w.batch_results) # {}
    /\ w' = [w EXCEPT !.pc = "b_status",
                      !.processed_count = @ + Cardinality(Rows(w.batch_results)),
                      !.results = @ \o w.batch_results]
    /\ DataAppended(w.batch_results, TRUE, FALSE)
    /\ UNCHANGED <<envVars, storeVars, queue, registryVars, clientVars,
                   historyVars>>

batch_append_fails ==
    /\ BatchCollected
    /\ Rows(w.batch_results) # {}
    /\ w' = PipelineExit(w, "append failed")
    /\ DataAppended(w.batch_results, FALSE, FALSE)
    /\ UNCHANGED <<envVars, storeVars, queue, registryVars, clientVars,
                   historyVars>>

\* rows.is_empty(): nothing is appended; results.extend(batch_results)
batch_no_rows ==
    /\ BatchCollected
    /\ Rows(w.batch_results) = {}
    /\ w' = [w EXCEPT !.pc = "b_status", !.results = @ \o w.batch_results]
    /\ UNCHANGED <<envVars, remote, storeVars, queue, registryVars, clientVars,
                   historyVars>>

\* progress of a Processing or failed job (562-566, 396-401)
Progress_Uncapped(processed, total) ==
    IF total = 0 THEN 0 ELSE (processed * 100) \div total

Progress(processed, total) ==
    IF total = 0 THEN 0 ELSE Min((processed * 100) \div total, 99)

\* save_status at the end of a batch; the loop goes on or the pipeline is Ok
batch_status ==
    /\ w.pc = "b_status"
    /\ statusFile' = [statusFile EXCEPT ![w.job] =
          ProcessingStatus(Progress(w.processed_count, w.total_files),
                           w.total_files, w.processed_count, Len(w.results))]
    /\ w' = IF w.batch * ChunkSize >= w.total_files
            THEN PipelineExit(w, "")
            ELSE [w EXCEPT !.pc = "b_check", !.batch = @ + 1]
    /\ UNCHANGED <<envVars, remote, resultsFile, queue, registryVars,
                   clientVars, historyVars>>

batch_status_fails ==
    /\ w.pc = "b_status"
    /\ w' = PipelineExit(w, "status write failed")
    /\ UNCHANGED <<envVars, remote, storeVars, queue, registryVars, clientVars,
                   historyVars>>

\* ------------------------------------- process_batch_job after the pipeline
\* cancellation_tokens.remove(job_id)
remove_token ==
    /\ w.pc = "remove"
    /\ cancellation_tokens' = cancellation_tokens \ {w.job}
    /\ w' = Advance(w)
    /\ UNCHANGED <<envVars, remote, storeVars, queue, cancelled, clientVars,
                   historyVars>>

\* Ok(()): save_results(job_id, &results)
save_results ==
    /\ w.pc = "t_results"
    /\ resultsFile' = [resultsFile EXCEPT
                          ![w.job] = [present |-> TRUE, items |-> w.results]]
    /\ w' = Advance(w)
    /\ UNCHANGED <<envVars, remote, statusFile, queue, registryVars,
                   clientVars, historyVars>>

save_results_fails ==
    /\ w.pc = "t_results"
    /\ w' = ReturnErr
    /\ UNCHANGED <<envVars, remote, storeVars, queue, registryVars, clientVars,
                   historyVars>>

\* the JobStatus of a finished job (365-380, 393-413); results_count is
\* results.len(), not the number of rows appended
TerminalStatus_CountsRows(state, progress, error) ==
    [status |-> state, progress |-> progress, total_files |-> w.total_files,
     processed_files |-> w.processed_count, spreadsheet_id |-> w.sheet,
     results_count |-> w.processed_count, error |-> error,
     created_at |-> w.created_at, started_at |-> TRUE,
     completed_at |-> w.completed_at,
     duration_seconds |-> TRUE]

TerminalStatus(state, progress, error) ==
    [status |-> state, progress |-> progress, total_files |-> w.total_files,
     processed_files |-> w.processed_count, spreadsheet_id |-> w.sheet,
     results_count |-> Len(w.results), error |-> error,
     created_at |-> w.created_at, started_at |-> TRUE,
     completed_at |-> w.completed_at,
     duration_seconds |-> TRUE]

\* Ok(()): save_status(Completed, progress 100)
save_completed ==
    /\ w.pc = "t_status"
    /\ statusFile' = [statusFile EXCEPT
                         ![w.job] = TerminalStatus("Completed", 100, "")]
    /\ terminalWrites' = [terminalWrites EXCEPT ![w.job] = @ + 1]
    /\ w' = Advance(w)
    /\ UNCHANGED <<envVars, remote, resultsFile, queue, registryVars,
                   clientVars, enqueued, entered, sinceAccepted, cancelTrue>>

save_completed_fails ==
    /\ w.pc = "t_status"
    /\ w' = ReturnErr
    /\ UNCHANGED <<envVars, remote, storeVars, queue, registryVars, clientVars,
                   historyVars>>

\* Err(err): Revoked if cancellation_token.is_cancelled(), else Failed
FailureState(was_cancelled) == IF was_cancelled THEN "Revoked" ELSE "Failed"

\* Err(err): save_status(Revoked | Failed, error = err.to_string())
save_failed ==
    /\ w.pc = "t_fail"
    /\ statusFile' = [statusFile EXCEPT ![w.job] =
          TerminalStatus(FailureState(cancelled[w.job]),
                         Progress(w.processed_count, w.total_files), w.err)]
    /\ terminalWrites' = [terminalWrites EXCEPT ![w.job] = @ + 1]
    /\ w' = Advance(w)
    /\ UNCHANGED <<envVars, remote, resultsFile, queue, registryVars,
                   clientVars, enqueued, entered, sinceAccepted, cancelTrue>>

save_failed_fails ==
    /\ w.pc = "t_fail"
    /\ w' = ReturnErr
    /\ UNCHANGED <<envVars, remote, storeVars, queue, registryVars, clientVars,
                   historyVars>>

\* -------------------------------------------------------------------- spec
Next ==
    \/ \E j \in JobIds : \E f \in FolderIds : start_batch_job_invalid(j, f)
    \/ \E j \in JobIds : \E sheet \in {"", "given"} : \E f \in FolderIds :
          start_batch_job_accept(j, sheet, f)
    \/ \E j \in JobIds : \E f \in FolderIds : start_batch_job_no_token(j, f)
    \/ \E j \in JobIds : start_batch_job_cleanup(j)
    \/ \E j \in JobIds : start_batch_job_cleanup_fails(j)
    \/ \E j \in JobIds : start_batch_job_save(j)
    \/ \E j \in JobIds : start_batch_job_save_fails(j)
    \/ \E j \in JobIds : start_batch_job_send(j)
    \/ \E j \in JobIds : cancel_job_found(j)
    \/ \E j \in JobIds : cancel_job_not_found(j)
    \/ cancel_job_signal
    \/ process_queue_recv
    \/ process_batch_job_load
    \/ process_batch_job_load_fails
    \/ pipeline_start
    \/ pipeline_start_fails
    \/ pipeline_token
    \/ pipeline_token_fails
    \/ pipeline_list
    \/ pipeline_list_empty
    \/ pipeline_list_empty_fails
    \/ pipeline_list_fails
    \/ pipeline_create
    \/ pipeline_create_fails
    \/ pipeline_header
    \/ pipeline_header_fails
    \/ pipeline_enumerated
    \/ pipeline_enumerated_fails
    \/ batch_cancelled
    \/ batch_begin
    \/ \E i \in 1..MaxFiles : file_start(i)
    \/ \E i \in 1..MaxFiles : file_missing_id(i)
    \/ \E i \in 1..MaxFiles : file_parsed(i)
    \/ \E i \in 1..MaxFiles : \E e \in SomeFileErrors : file_retry(i, e)
    \/ \E i \in 1..MaxFiles : \E e \in SomeFileErrors : file_gives_up(i, e)
    \/ batch_append
    \/ batch_append_unchecked
    \/ batch_append_fails
    \/ batch_no_rows
    \/ batch_status
    \/ batch_status_fails
    \/ remove_token
    \/ save_results
    \/ save_results_fails
    \/ save_completed
    \/ save_completed_fails
    \/ save_failed
    \/ save_failed_fails

Spec == Init /\ [][Next]_vars

\* Several batch jobs into an existing spreadsheet, the clock and the
\* retention sweeps, over a folder of one file that parses, with a store and
\* remote services that do not fail while a job is processed.
InitSystem ==
    /\ settings = [max_concurrent_requests |-> 1, spreadsheet_batch_size |-> 1,
                   max_retries |-> 1]
    /\ drive = <<"id">>
    /\ keyring = NoEntry
    /\ Start(JobIds)

NextSystem ==
    \/ \E j \in JobIds : start_batch_job_invalid(j, <<>>)
    \/ \E j \in JobIds : start_batch_job_accept(j, "given", <<"a">>)
    \/ \E j \in JobIds : start_batch_job_no_token(j, <<"a">>)
    \/ \E j \in JobIds : start_batch_job_cleanup(j)
    \/ \E j \in JobIds : start_batch_job_cleanup_fails(j)
    \/ \E j \in JobIds : start_batch_job_save(j)
    \/ \E j \in JobIds : start_batch_job_save_fails(j)
    \/ \E j \in JobIds : start_batch_job_send(j)
    \/ ListJobs
    \/ Tick
    \/ process_queue_recv
    \/ process_batch_job_load
    \/ pipeline_start
    \/ pipeline_token
    \/ pipeline_list
    \/ pipeline_enumerated
    \/ batch_begin
    \/ \E i \in 1..MaxFiles : file_start(i)
    \/ \E i \in 1..MaxFiles : file_parsed(i)
    \/ batch_append
    \/ batch_status
    \/ remove_token
    \/ save_results
    \/ save_completed

SpecSystem == InitSystem /\ [][NextSystem]_vars

\* One batch job over a folder of one file, with or without an id, under
\* every max_retries up to MaxRetries and every error a download attempt can
\* fail with; the store and the other remote calls do not fail.
InitFile ==
    /\ settings \in [max_concurrent_requests : {1},
                     spreadsheet_batch_size : {1},
                     max_retries : 1..MaxRetries]
    /\ drive \in {<<"id">>, <<"noid">>}
    /\ keyring = NoEntry
    /\ Start({1})

NextFile ==
    \/ \E j \in JobIds : start_batch_job_accept(j, "given", <<"a">>)
    \/ \E j \in JobIds : start_batch_job_cleanup(j)
    \/ \E j \in JobIds : start_batch_job_save(j)
    \/ \E j \in JobIds : start_batch_job_send(j)
    \/ process_queue_recv
    \/ process_batch_job_load
    \/ pipeline_start
    \/ pipeline_token
    \/ pipeline_list
    \/ pipeline_enumerated
    \/ batch_begin
    \/ \E i \in 1..MaxFiles : file_start(i)
    \/ \E i \in 1..MaxFiles : file_missing_id(i)
    \/ \E i \in 1..MaxFiles : file_parsed(i)
    \/ \E i \in 1..MaxFiles : \E e \in FileErrors : file_retry(i, e)
    \/ \E i \in 1..MaxFiles : \E e \in FileErrors : file_gives_up(i, e)
    \/ batch_append
    \/ batch_no_rows
    \/ batch_status
    \/ remove_token
    \/ save_results
    \/ save_completed

SpecFile == InitFile /\ [][NextFile]_vars

\* One batch job over a folder of up to MaxListed files, with or without an
\* id, under every spreadsheet_batch_size and max_concurrent_requests up to
\* MaxListed and MaxRetries attempts per file; a download fails with a
\* retryable or a permanent error; the store and the other remote calls do
\* not fail.
InitBatch ==
    /\ settings \in [max_concurrent_requests : 1..MaxListed,
                     spreadsheet_batch_size : 1..MaxListed,
                     max_retries : {MaxRetries}]
    /\ drive \in UNION {[1..n -> {"id", "noid"}] : n \in 1..MaxListed}
    /\ keyring = NoEntry
    /\ Start({1})

NextBatch ==
    \/ \E j \in JobIds : start_batch_job_accept(j, "given", <<"a">>)
    \/ \E j \in JobIds : start_batch_job_cleanup(j)
    \/ \E j \in JobIds : start_batch_job_save(j)
    \/ \E j \in JobIds : start_batch_job_send(j)
    \/ process_queue_recv
    \/ process_batch_job_load
    \/ pipeline_start
    \/ pipeline_token
    \/ pipeline_list
    \/ pipeline_enumerated
    \/ batch_begin
    \/ \E i \in 1..MaxListed : file_start(i)
    \/ \E i \in 1..MaxListed : file_missing_id(i)
    \/ \E i \in 1..MaxListed : file_parsed(i)
    \/ \E i \in 1..MaxListed : \E e \in SomeFileErrors : file_retry(i, e)
    \/ \E i \in 1..MaxListed : \E e \in SomeFileErrors : file_gives_up(i, e)
    \/ batch_append
    \/ batch_no_rows
    \/ batch_status
    \/ remove_token
    \/ save_results
    \/ save_completed

SpecBatch == InitBatch /\ [][NextBatch]_vars

\* Several batch jobs over a folder of two files in batches of one, with
\* cancel_job called for any job id at any time; the store and the remote
\* services do not fail.
InitCancel ==
    /\ settings = [max_concurrent_requests |-> 1, spreadsheet_batch_size |-> 1,
                   max_retries |-> 1]
    /\ drive = <<"id", "id">>
    /\ keyring = NoEntry
    /\ Start(JobIds)

NextCancel ==
    \/ \E j \in JobIds : start_batch_job_accept(j, "given", <<"a">>)
    \/ \E j \in JobIds : start_batch_job_cleanup(j)
    \/ \E j \in JobIds : start_batch_job_save(j)
    \/ \E j \in JobIds : start_batch_job_send(j)
    \/ \E j \in JobIds : cancel_job_found(j)
    \/ \E j \in JobIds : cancel_job_not_found(j)
    \/ cancel_job_signal
    \/ process_queue_recv
    \/ process_batch_job_load
    \/ pipeline_start
    \/ pipeline_token
    \/ pipeline_list
    \/ pipeline_enumerated
    \/ batch_cancelled
    \/ batch_begin
    \/ \E i \in 1..MaxFiles : file_start(i)
    \/ \E i \in 1..MaxFiles : file_parsed(i)
    \/ batch_append
    \/ batch_status
    \/ remove_token
    \/ save_results
    \/ save_completed
    \/ save_failed

SpecCancel == InitCancel /\ [][NextCancel]_vars

\* Several batch jobs over a folder of one file, with every failure of the
\* job store inside process_batch_job, a token failure in the pipeline and
\* cancel_job at any time. The consumer task, once spawned, keeps being
\* polled and every call it awaits returns, with a value or with an error:
\* its next step, whichever it is, is eventually taken.
InitConsumer ==
    /\ settings = [max_concurrent_requests |-> 1, spreadsheet_batch_size |-> 1,
                   max_retries |-> 1]
    /\ drive = <<"id">>
    /\ keyring = NoEntry
    /\ Start(JobIds)

\* the steps of process_queue and of the process_batch_job it awaits
process_queue ==
    \/ process_queue_recv
    \/ process_batch_job_load
    \/ process_batch_job_load_fails
    \/ pipeline_start
    \/ pipeline_token
    \/ pipeline_token_fails
    \/ pipeline_list
    \/ pipeline_enumerated
    \/ batch_cancelled
    \/ batch_begin
    \/ \E i \in 1..MaxFiles : file_start(i)
    \/ \E i \in 1..MaxFiles : file_parsed(i)
    \/ batch_append
    \/ batch_status
    \/ remove_token
    \/ save_results
    \/ save_results_fails
    \/ save_completed
    \/ save_completed_fails
    \/ save_failed
    \/ save_failed_fails

NextConsumer ==
    \/ \E j \in JobIds : start_batch_job_accept(j, "given", <<"a">>)
    \/ \E j \in JobIds : start_batch_job_cleanup(j)
    \/ \E j \in JobIds : start_batch_job_save(j)
    \/ \E j \in JobIds : start_batch_job_send(j)
    \/ \E j \in JobIds : cancel_job_found(j)
    \/ \E j \in JobIds : cancel_job_not_found(j)
    \/ cancel_job_signal
    \/ process_queue

SpecConsumer ==
    InitConsumer /\ [][NextConsumer]_vars /\ WF_vars(process_queue)

\* ------------------------------------------------------- GoogleAuthService
orchestratorVars ==
    <<storeVars, queue, registryVars, clientVars, w, historyVars, remote,
      listing>>

Step(op, c, reply, result) ==
    lastStep' = [op |-> op, caller |-> c, reply |-> reply, result |-> result,
                 input |-> NoCallback, session_id |-> 0]

\* validate_settings passes
validate_settings == trim(settings.google_client_id) # <<>>

\* get_access_token_non_interactive up to the refresh: the client id is
\* missing
get_access_token_missing_client_id(c) ==
    /\ auth[c].pc = "idle"
    /\ ~validate_settings
    /\ Step("get", c, NoReply, Err("MissingGoogleClientId"))
    /\ UNCHANGED <<settings, drive, keyring, auth, cleared, signInVars, orchestratorVars>>

\* load_token fails on the keyring
get_access_token_load_fails(c) ==
    /\ auth[c].pc = "idle"
    /\ validate_settings
    /\ Step("get", c, NoReply, Err("keyring"))
    /\ UNCHANGED <<settings, drive, keyring, auth, cleared, signInVars, orchestratorVars>>

\* load_token finds no entry
get_access_token_sign_in_required(c) ==
    /\ auth[c].pc = "idle"
    /\ validate_settings
    /\ keyring = NoEntry
    /\ Step("get", c, NoReply, Err("SignInRequired"))
    /\ UNCHANGED <<settings, drive, keyring, auth, cleared, signInVars, orchestratorVars>>

\* the cached token is not expiring
get_access_token_cached(c) ==
    /\ auth[c].pc = "idle"
    /\ validate_settings
    /\ keyring # NoEntry
    /\ ~is_expiring_within(keyring, refresh_window)
    /\ Step("get", c, NoReply, Ok(keyring.access_token))
    /\ UNCHANGED <<settings, drive, keyring, auth, cleared, signInVars, orchestratorVars>>

\* the cached token is expiring and has no refresh token
get_access_token_reauth_required(c) ==
    /\ auth[c].pc = "idle"
    /\ validate_settings
    /\ keyring # NoEntry
    /\ is_expiring_within(keyring, refresh_window)
    /\ keyring.refresh_token = NoRefreshToken
    /\ Step("get", c, NoReply, Err("ReauthRequired"))
    /\ UNCHANGED <<settings, drive, keyring, auth, cleared, signInVars, orchestratorVars>>

\* the cached token is expiring: refresh_token posts to the token endpoint
get_access_token_refresh(c) ==
    /\ auth[c].pc = "idle"
    /\ validate_settings
    /\ keyring # NoEntry
    /\ is_expiring_within(keyring, refresh_window)
    /\ keyring.refresh_token # NoRefreshToken
    /\ auth' = [auth EXCEPT ![c] = [pc |-> "refreshing",
                                    refresh_token |-> keyring.refresh_token]]
    /\ Step("post", c, NoReply, NoResult)
    /\ UNCHANGED <<settings, drive, keyring, cleared, signInVars, orchestratorVars>>

\* refresh_token returned Ok(refreshed): save_token, Ok(access_token)
refresh_saved(c, reply) ==
    /\ auth[c].pc = "refreshing"
    /\ LET refreshed == refresh_token(auth[c].refresh_token, reply) IN
       /\ refreshed.ok
       /\ keyring' = refreshed.value
       /\ Step("refresh", c, reply, Ok(refreshed.value.access_token))
    /\ auth' = [auth EXCEPT ![c] = IdleCall]
    /\ UNCHANGED <<settings, drive, cleared, signInVars, orchestratorVars>>

\* refresh_token returned Ok(refreshed) and save_token fails on the keyring
refresh_save_fails(c, reply) ==
    /\ auth[c].pc = "refreshing"
    /\ refresh_token(auth[c].refresh_token, reply).ok
    /\ Step("refresh", c, reply, Err("keyring"))
    /\ auth' = [auth EXCEPT ![c] = IdleCall]
    /\ UNCHANGED <<settings, drive, keyring, cleared, signInVars, orchestratorVars>>

\* refresh_token returned a re-auth error: clear_token, ReauthRequired
refresh_reauth(c, reply) ==
    /\ auth[c].pc = "refreshing"
    /\ is_reauth_error(refresh_token(auth[c].refresh_token, reply))
    /\ keyring' = NoEntry
    /\ cleared' = TRUE
    /\ Step("refresh", c, reply, Err("ReauthRequired"))
    /\ auth' = [auth EXCEPT ![c] = IdleCall]
    /\ UNCHANGED <<settings, drive, signInVars, orchestratorVars>>

\* refresh_token returned a re-auth error and clear_token fails
refresh_clear_fails(c, reply) ==
    /\ auth[c].pc = "refreshing"
    /\ is_reauth_error(refresh_token(auth[c].refresh_token, reply))
    /\ Step("refresh", c, reply, Err("keyring"))
    /\ auth' = [auth EXCEPT ![c] = IdleCall]
    /\ UNCHANGED <<settings, drive, keyring, cleared, signInVars, orchestratorVars>>

\* refresh_token returned another error: Err(err)
refresh_error(c, reply) ==
    /\ auth[c].pc = "refreshing"
    /\ LET err == refresh_token(auth[c].refresh_token, reply) IN
       /\ ~err.ok
       /\ ~is_reauth_error(err)
       /\ Step("refresh", c, reply, err)
    /\ auth' = [auth EXCEPT ![c] = IdleCall]
    /\ UNCHANGED <<settings, drive, keyring, cleared, signInVars, orchestratorVars>>

\* sign_in or complete_manual_sign_in obtained a token: save_token
sign_in_saved(token) ==
    /\ validate_settings
    /\ keyring' = token
    /\ cleared' = FALSE
    /\ Step("sign_in", "", NoReply, Ok(token.access_token))
    /\ UNCHANGED <<settings, drive, auth, signInVars, orchestratorVars>>

sign_out_KeepsSessions ==
    /\ keyring' = NoEntry
    /\ Step("sign_out", "", NoReply, Ok(""))
    /\ UNCHANGED <<settings, drive, auth, cleared, signInVars, orchestratorVars>>

\* sign_out: clear_token, sessions.clear()
sign_out ==
    /\ keyring' = NoEntry
    /\ manual_sessions' = [k \in SessionIds |-> NoSession]
    /\ Step("sign_out", "", NoReply, Ok(""))
    /\ UNCHANGED <<settings, drive, auth, cleared, issued, manual, interactive,
                   orchestratorVars>>

\* sign_out: clear_token fails on the keyring
sign_out_fails ==
    /\ Step("sign_out", "", NoReply, Err("keyring"))
    /\ UNCHANGED <<settings, drive, keyring, auth, cleared, signInVars,
                   orchestratorVars>>

\* minutes pass: what is not yet expired is that much closer to it
Aged(t, minutes) == IF t > minutes THEN t - minutes ELSE 0

Elapse(minutes) ==
    /\ \/ keyring # NoEntry /\ keyring.expires_at_utc > 0
       \/ \E k \in SessionIds : manual_sessions[k].expires_at > 0
    /\ keyring' = IF keyring = NoEntry THEN keyring
                  ELSE [keyring EXCEPT !.expires_at_utc = Aged(@, minutes)]
    /\ manual_sessions' =
          [k \in SessionIds |->
              [manual_sessions[k] EXCEPT !.expires_at = Aged(@, minutes)]]
    /\ Step("tick", "", NoReply, NoResult)
    /\ UNCHANGED <<settings, drive, auth, cleared, issued, manual, interactive,
                   orchestratorVars>>

\* ------------------------------------------------- sign-in, both flows
StepOn(op, id, input, reply, result) ==
    lastStep' = [op |-> op, caller |-> "", reply |-> reply, result |-> result,
                 input |-> input, session_id |-> id]

\* status() called: a read of the keyring
status_call ==
    /\ Step("status", "", NoReply,
            [ok |-> TRUE, value |-> "AuthStatus", status |-> 0,
             signed_in |-> status.signed_in,
             expires_at |-> status.expires_at])
    /\ UNCHANGED <<settings, drive, keyring, auth, cleared, signInVars,
                   orchestratorVars>>

\* status() called and load_token fails on the keyring
status_call_fails ==
    /\ Step("status", "", NoReply, Err("keyring"))
    /\ UNCHANGED <<settings, drive, keyring, auth, cleared, signInVars,
                   orchestratorVars>>

parse_callback_url_or_code_NoStateCheck(input, expected_state) ==
    IF input.kind \in {"empty", "badurl"} THEN Err("InvalidCallback")
    ELSE IF input.kind = "raw" THEN Ok(input.code)
    ELSE IF input.error # "" THEN Err("InvalidCallback")
    ELSE IF input.code = "" THEN Err("InvalidCallback")
    ELSE Ok(input.code)

parse_callback_url_or_code(input, expected_state) ==
    IF input.kind = "empty" THEN Err("InvalidCallback")
    ELSE IF input.kind = "raw" THEN Ok(input.code)
    ELSE IF input.kind = "badurl" THEN Err("InvalidCallback")
    ELSE IF input.error # "" THEN Err("InvalidCallback")
    ELSE IF /\ expected_state # NoState
            /\ input.state # NoState
            /\ input.state # expected_state
    THEN Err("StateMismatch")
    ELSE IF input.code = "" THEN Err("InvalidCallback")
    ELSE Ok(input.code)

\* exchange_authorization_code: the envelope or the error for a reply
exchange_authorization_code(fallback_refresh_token, reply) ==
    IF reply.kind = "transport" THEN Err("reqwest")
    ELSE IF ~is_success(reply.status)
    THEN IF is_reauth_response(reply.status, reply.body)
         THEN Err("ReauthRequired")
         ELSE ProviderError(reply.status)
    ELSE IF ~reply.body.json THEN Err("serde_json")
    ELSE Ok(GoogleTokenEnvelope(
                reply.body.access_token,
                IF reply.body.refresh_token # NoRefreshToken
                THEN reply.body.refresh_token
                ELSE fallback_refresh_token,
                reply.body.expires_in))

\* what the token endpoint answers a code exchange with
ExchangeReplies ==
    {Http(200, TokenResponse("a1", r, MaxMinutes)) :
        r \in {"r1", NoRefreshToken}}
    \cup {Http(200, PlainBody(<<"Bad", "Request">>)),
          Http(400, OAuthErrorResponse(<<"invalid_grant">>, <<>>)),
          Http(500, PlainBody(<<"Bad", "Request">>)),
          Transport}

manual_fallback_reason_from_error_Never(error) == ""

\* manual_fallback_reason_from_error; "" is None
manual_fallback_reason_from_error(error) ==
    IF error.ok THEN ""
    ELSE CASE error.value = "LoopbackUnavailable" -> "loopback_unavailable"
           [] error.value = "LoopbackTimeout" -> "loopback_timeout"
           [] error.value = "InvalidCallback" -> "invalid_callback"
           [] error.value = "StateMismatch" -> "state_mismatch"
           [] OTHER -> ""

\* GoogleSignInResult
SignedIn == [ok |-> TRUE, value |-> "SignedIn", status |-> 0, reason |-> ""]
ManualRequired(reason) ==
    [ok |-> TRUE, value |-> "ManualRequired", status |-> 0, reason |-> reason]

\* what sign_in returns when authorize_interactive failed with err
SignInFailure(err) ==
    IF manual_fallback_reason_from_error(err) # ""
    THEN ManualRequired(manual_fallback_reason_from_error(err))
    ELSE err

\* sign_in without a client id
sign_in_missing_client_id ==
    /\ interactive.pc = "idle"
    /\ ~validate_settings
    /\ StepOn("sign_in", 0, NoCallback, NoReply, Err("MissingGoogleClientId"))
    /\ UNCHANGED <<settings, drive, keyring, auth, cleared, signInVars,
                   orchestratorVars>>

\* what went wrong before a callback was received, kept with the step
Cause(why) == [NoCallback EXCEPT !.kind = why]

\* the listener cannot be bound ("bind") or the browser cannot be opened
\* ("browser"): both are mapped to LoopbackUnavailable
sign_in_unavailable(why) ==
    /\ interactive.pc = "idle"
    /\ validate_settings
    /\ StepOn("sign_in", 0, Cause(why), NoReply,
              SignInFailure(Err("LoopbackUnavailable")))
    /\ UNCHANGED <<settings, drive, keyring, auth, cleared, signInVars,
                   orchestratorVars>>

\* the listener is bound and the browser opened on the authorize URL
sign_in_opened ==
    /\ interactive.pc = "idle"
    /\ validate_settings
    /\ interactive' = [pc |-> "waiting", session_id |-> 0,
                       state |-> InteractiveState, code |-> ""]
    /\ StepOn("sign_in_open", 0, NoCallback, NoReply, NoResult)
    /\ UNCHANGED <<settings, drive, keyring, auth, cleared, manual_sessions,
                   issued, manual, orchestratorVars>>

\* wait_for_oauth_callback fails: the deadline passes, accept fails, or the
\* request cannot be read
sign_in_wait_fails(why) ==
    /\ interactive.pc = "waiting"
    /\ interactive' = IdleFlow
    /\ StepOn("sign_in", 0, Cause(why), NoReply, SignInFailure(Err(why)))
    /\ UNCHANGED <<settings, drive, keyring, auth, cleared, manual_sessions,
                   issued, manual, orchestratorVars>>

\* the callback request is malformed or its state is not the issued one
sign_in_callback_rejected(request) ==
    /\ interactive.pc = "waiting"
    /\ LET parsed == parse_callback_url_or_code(request, NoState) IN
       /\ ~parsed.ok \/ request.state # interactive.state
       /\ StepOn("sign_in", 0, request, NoReply,
                 SignInFailure(IF ~parsed.ok THEN parsed
                               ELSE Err("StateMismatch")))
    /\ interactive' = IdleFlow
    /\ UNCHANGED <<settings, drive, keyring, auth, cleared, manual_sessions,
                   issued, manual, orchestratorVars>>

\* the callback is accepted: its code is posted to the token endpoint
sign_in_callback_accepted(request) ==
    /\ interactive.pc = "waiting"
    /\ LET parsed == parse_callback_url_or_code(request, NoState) IN
       /\ parsed.ok
       /\ request.state = interactive.state
       /\ interactive' = [interactive EXCEPT !.pc = "exchanging",
                                             !.code = parsed.value]
    /\ StepOn("sign_in_post", 0, request, NoReply, NoResult)
    /\ UNCHANGED <<settings, drive, keyring, auth, cleared, manual_sessions,
                   issued, manual, orchestratorVars>>

\* the exchange fails
sign_in_exchange_fails(reply) ==
    /\ interactive.pc = "exchanging"
    /\ LET token == exchange_authorization_code(NoRefreshToken, reply) IN
       /\ ~token.ok
       /\ StepOn("sign_in", 0, NoCallback, reply, SignInFailure(token))
    /\ interactive' = IdleFlow
    /\ UNCHANGED <<settings, drive, keyring, auth, cleared, manual_sessions,
                   issued, manual, orchestratorVars>>

\* the exchange returns a token: save_token, SignedIn
sign_in_exchanged(reply) ==
    /\ interactive.pc = "exchanging"
    /\ LET token == exchange_authorization_code(NoRefreshToken, reply) IN
       /\ token.ok
       /\ keyring' = token.value
    /\ cleared' = FALSE
    /\ StepOn("sign_in", 0, NoCallback, reply, SignedIn)
    /\ interactive' = IdleFlow
    /\ UNCHANGED <<settings, drive, auth, manual_sessions, issued, manual,
                   orchestratorVars>>

\* the exchange returns a token and save_token fails on the keyring
sign_in_save_fails(reply) ==
    /\ interactive.pc = "exchanging"
    /\ exchange_authorization_code(NoRefreshToken, reply).ok
    /\ StepOn("sign_in", 0, NoCallback, reply, Err("keyring"))
    /\ interactive' = IdleFlow
    /\ UNCHANGED <<settings, drive, keyring, auth, cleared, manual_sessions,
                   issued, manual, orchestratorVars>>

\* cleanup_expired_manual_sessions: retain what expires after now
cleanup_expired_manual_sessions(sessions) ==
    [k \in SessionIds |->
        IF sessions[k].present /\ sessions[k].expires_at > 0
        THEN sessions[k] ELSE NoSession]

\* begin_manual_sign_in: the session gets an id and a state never used before
begin_manual_sign_in ==
    /\ validate_settings
    /\ issued < MaxSessions
    /\ issued' = issued + 1
    /\ manual_sessions' =
          [cleanup_expired_manual_sessions(manual_sessions)
              EXCEPT ![issued + 1] =
                  ManualAuthSession(issued + 1, MANUAL_SESSION_TTL)]
    /\ StepOn("begin_manual", issued + 1, NoCallback, NoReply, Ok("challenge"))
    /\ UNCHANGED <<settings, drive, keyring, auth, cleared, manual,
                   interactive, orchestratorVars>>

complete_manual_missing_client_id(c, id) ==
    /\ manual[c].pc = "idle"
    /\ ~validate_settings
    /\ StepOn("complete_manual", id, NoCallback, NoReply,
              Err("MissingGoogleClientId"))
    /\ UNCHANGED <<settings, drive, keyring, auth, cleared, signInVars,
                   orchestratorVars>>

\* the session id is not in the map
complete_manual_not_found(c, id, input) ==
    /\ manual[c].pc = "idle"
    /\ validate_settings
    /\ ~manual_sessions[id].present
    /\ StepOn("complete_manual", id, input, NoReply, Err("SessionNotFound"))
    /\ UNCHANGED <<settings, drive, keyring, auth, cleared, signInVars,
                   orchestratorVars>>

complete_manual_expired_Keeps(c, id, input) ==
    /\ manual[c].pc = "idle"
    /\ validate_settings
    /\ manual_sessions[id].present
    /\ manual_sessions[id].expires_at <= 0
    /\ StepOn("complete_manual", id, input, NoReply, Err("ChallengeExpired"))
    /\ UNCHANGED <<settings, drive, keyring, auth, cleared, signInVars,
                   orchestratorVars>>

\* the session is past its expires_at: it is removed
complete_manual_expired(c, id, input) ==
    /\ manual[c].pc = "idle"
    /\ validate_settings
    /\ manual_sessions[id].present
    /\ manual_sessions[id].expires_at <= 0
    /\ manual_sessions' = [manual_sessions EXCEPT ![id] = NoSession]
    /\ StepOn("complete_manual", id, input, NoReply, Err("ChallengeExpired"))
    /\ UNCHANGED <<settings, drive, keyring, auth, cleared, issued, manual,
                   interactive, orchestratorVars>>

\* parse_callback_url_or_code fails on what was pasted
complete_manual_rejected(c, id, input) ==
    /\ manual[c].pc = "idle"
    /\ validate_settings
    /\ manual_sessions[id].present
    /\ manual_sessions[id].expires_at > 0
    /\ LET code == parse_callback_url_or_code(input, manual_sessions[id].state)
       IN /\ ~code.ok
          /\ StepOn("complete_manual", id, input, NoReply, code)
    /\ UNCHANGED <<settings, drive, keyring, auth, cleared, signInVars,
                   orchestratorVars>>

\* the code is posted to the token endpoint
complete_manual_post(c, id, input) ==
    /\ manual[c].pc = "idle"
    /\ validate_settings
    /\ manual_sessions[id].present
    /\ manual_sessions[id].expires_at > 0
    /\ LET code == parse_callback_url_or_code(input, manual_sessions[id].state)
       IN /\ code.ok
          /\ manual' = [manual EXCEPT ![c] =
                           [pc |-> "exchanging", session_id |-> id,
                            state |-> manual_sessions[id].state,
                            code |-> code.value]]
    /\ StepOn("complete_manual_post", id, input, NoReply, NoResult)
    /\ UNCHANGED <<settings, drive, keyring, auth, cleared, manual_sessions,
                   issued, interactive, orchestratorVars>>

\* the exchange fails
complete_manual_exchange_fails(c, reply) ==
    /\ manual[c].pc = "exchanging"
    /\ LET token == exchange_authorization_code(NoRefreshToken, reply) IN
       /\ ~token.ok
       /\ StepOn("complete_manual", manual[c].session_id, NoCallback, reply,
                 token)
    /\ manual' = [manual EXCEPT ![c] = IdleFlow]
    /\ UNCHANGED <<settings, drive, keyring, auth, cleared, manual_sessions,
                   issued, interactive, orchestratorVars>>

\* the exchange returns a token and save_token fails on the keyring
complete_manual_save_fails(c, reply) ==
    /\ manual[c].pc = "exchanging"
    /\ exchange_authorization_code(NoRefreshToken, reply).ok
    /\ StepOn("complete_manual", manual[c].session_id, NoCallback, reply,
              Err("keyring"))
    /\ manual' = [manual EXCEPT ![c] = IdleFlow]
    /\ UNCHANGED <<settings, drive, keyring, auth, cleared, manual_sessions,
                   issued, interactive, orchestratorVars>>

\* the exchange returns a token: save_token, the session is removed
complete_manual_saved(c, reply) ==
    /\ manual[c].pc = "exchanging"
    /\ LET token == exchange_authorization_code(NoRefreshToken, reply) IN
       /\ token.ok
       /\ keyring' = token.value
    /\ cleared' = FALSE
    /\ manual_sessions' =
          [manual_sessions EXCEPT ![manual[c].session_id] = NoSession]
    /\ StepOn("complete_manual", manual[c].session_id, NoCallback, reply,
              Ok("signed_in"))
    /\ manual' = [manual EXCEPT ![c] = IdleFlow]
    /\ UNCHANGED <<settings, drive, auth, issued, interactive,
                   orchestratorVars>>

\* The token service alone: any keyring content at start, both callers, every
\* reply of the token endpoint, sign-in, sign-out and the clock.
InitAuth ==
    /\ settings \in [max_concurrent_requests : {1},
                     spreadsheet_batch_size : {1},
                     max_retries : {1},
                     google_client_id : {<<>>, <<" ">>, <<"c">>}]
    /\ drive = <<>>
    /\ keyring \in {NoEntry} \cup Envelopes
    /\ Start({})

NextAuth ==
    \/ \E c \in Callers : get_access_token_missing_client_id(c)
    \/ \E c \in Callers : get_access_token_load_fails(c)
    \/ \E c \in Callers : get_access_token_sign_in_required(c)
    \/ \E c \in Callers : get_access_token_cached(c)
    \/ \E c \in Callers : get_access_token_reauth_required(c)
    \/ \E c \in Callers : get_access_token_refresh(c)
    \/ \E c \in Callers : \E reply \in Replies : refresh_saved(c, reply)
    \/ \E c \in Callers : \E reply \in Replies : refresh_save_fails(c, reply)
    \/ \E c \in Callers : \E reply \in Replies : refresh_reauth(c, reply)
    \/ \E c \in Callers : \E reply \in Replies : refresh_clear_fails(c, reply)
    \/ \E c \in Callers : \E reply \in Replies : refresh_error(c, reply)
    \/ \E token \in Envelopes :
          /\ token.expires_at_utc \in {refresh_window, MaxMinutes}
          /\ sign_in_saved(token)
    \/ sign_out
    \/ Elapse(1)

SpecAuth == InitAuth /\ [][NextAuth]_vars

\* Sign-in: the interactive flow and the manual flow over every callback,
\* with sign-out, status, the clock, and a get_access_token_non_interactive
\* caller; the keyring starts empty or with an expired token of an earlier run.
InitSignIn ==
    /\ settings \in [max_concurrent_requests : {1},
                     spreadsheet_batch_size : {1},
                     max_retries : {1},
                     google_client_id : {<<>>, <<"c">>}]
    /\ drive = <<>>
    /\ keyring \in {NoEntry, GoogleTokenEnvelope("a2", NoRefreshToken, 0)}
    /\ Start({})

NextSignIn ==
    \/ sign_in_missing_client_id
    \/ \E why \in {"bind", "browser"} : sign_in_unavailable(why)
    \/ sign_in_opened
    \/ \E why \in {"LoopbackTimeout", "LoopbackUnavailable", "io"} :
          sign_in_wait_fails(why)
    \/ \E request \in LoopbackRequests : sign_in_callback_rejected(request)
    \/ \E request \in LoopbackRequests : sign_in_callback_accepted(request)
    \/ \E reply \in ExchangeReplies : sign_in_exchange_fails(reply)
    \/ \E reply \in ExchangeReplies : sign_in_exchanged(reply)
    \/ \E reply \in ExchangeReplies : sign_in_save_fails(reply)
    \/ begin_manual_sign_in
    \/ \E id \in SessionIds : complete_manual_missing_client_id("first", id)
    \/ \E id \in SessionIds : complete_manual_not_found("first", id, RawCode)
    \/ \E id \in SessionIds : complete_manual_expired("first", id, RawCode)
    \/ \E id \in SessionIds : \E input \in ManualInputs :
          complete_manual_rejected("first", id, input)
    \/ \E id \in SessionIds : \E input \in ManualInputs :
          complete_manual_post("first", id, input)
    \/ \E reply \in ExchangeReplies :
          complete_manual_exchange_fails("first", reply)
    \/ \E reply \in ExchangeReplies :
          complete_manual_save_fails("first", reply)
    \/ \E reply \in ExchangeReplies :
          complete_manual_saved("first", reply)
    \/ sign_out
    \/ sign_out_fails
    \/ status_call
    \/ status_call_fails
    \/ get_access_token_sign_in_required("start_batch_job")
    \/ get_access_token_cached("start_batch_job")
    \/ Elapse(refresh_window)

SpecSignIn == InitSignIn /\ [][NextSignIn]_vars

\* The manual flow under concurrent completions: complete_manual_sign_in is
\* called from two tasks at any time, for any session id and with anything
\* pasted, against every reply of the token endpoint.
InitManual ==
    /\ settings = [max_concurrent_requests |-> 1, spreadsheet_batch_size |-> 1,
                   max_retries |-> 1, google_client_id |-> <<"c">>]
    /\ drive = <<>>
    /\ keyring = NoEntry
    /\ Start({})

NextManual ==
    \/ begin_manual_sign_in
    \/ \E c \in Completions : \E id \in SessionIds :
          complete_manual_not_found(c, id, RawCode)
    \/ \E c \in Completions : \E id \in SessionIds :
          complete_manual_expired(c, id, RawCode)
    \/ \E c \in Completions : \E id \in SessionIds : \E input \in ManualInputs :
          complete_manual_rejected(c, id, input)
    \/ \E c \in Completions : \E id \in SessionIds : \E input \in ManualInputs :
          complete_manual_post(c, id, input)
    \/ \E c \in Completions : \E reply \in ExchangeReplies :
          complete_manual_exchange_fails(c, reply)
    \/ \E c \in Completions : \E reply \in ExchangeReplies :
          complete_manual_save_fails(c, reply)
    \/ \E c \in Completions : \E reply \in ExchangeReplies :
          complete_manual_saved(c, reply)
    \/ Elapse(refresh_window)

SpecManual == InitManual /\ [][NextManual]_vars

\* ================================================================== claims
Rank(st) == CASE st = "Pending" -> 1
              [] st = "Processing" -> 2
              [] st \in Terminal -> 3
              [] OTHER -> 0

Range(q) == {q[k] : k \in 1..Len(q)}

\* the consumer has taken job j from the queue
Dequeued(j) == j \in Range(enqueued) /\ \A k \in 1..Len(queue) : queue[k].job_id # j

\* process_batch_job has returned for job j
Finished(j) == Dequeued(j) /\ w.job # j

\* C1: a status write never takes a job's persisted status backwards along
\* Pending -> Processing -> {Completed, Failed, Revoked}, and no write changes
\* a status that is Completed, Failed or Revoked.
C1_StatusOnlyAdvances ==
    [][\A j \in JobIds :
          (statusFile[j].status # "absent" /\ statusFile'[j].status # "absent")
          => /\ Rank(statusFile'[j].status) >= Rank(statusFile[j].status)
             /\ statusFile[j].status \in Terminal
                => statusFile'[j] = statusFile[j]]_vars

C1_Witness ==
    /\ statusFile[1].status = "Completed"
    /\ statusFile[1].processed_files = 2
    /\ w.pc = "recv"

\* C2: every job id that start_batch_job has queued or returned has a status
\* record, so get_job_status does not answer JobNotFound, as long as no more
\* than job_retention_hours have passed since the job was accepted.
C2_AcceptedJobHasStatus ==
    \A j \in JobIds :
        /\ j \in returned \/ \E k \in 1..Len(queue) : queue[k].job_id = j
        /\ ~(sinceAccepted[j] # None /\ sinceAccepted[j] > job_retention_hours)
        => get_job_status(j) = "Ok"

C2_Witness ==
    \E j \in JobIds :
        /\ j \in returned
        /\ \E k \in 1..Len(queue) : queue[k].job_id = j
        /\ sinceAccepted[j] = job_retention_hours
        /\ statusFile[j].status = "Pending"
        /\ \E i \in JobIds : statusFile[i].status = "absent" /\ i \in returned

\* C3: once process_batch_job has returned for a job, exactly one terminal
\* status write was made for it; a terminal record carries completed_at and
\* duration_seconds and a Pending or Processing record carries neither.
C3_TerminalWrittenOnce ==
    \A j \in JobIds :
        /\ Finished(j) => terminalWrites[j] = 1
        /\ statusFile[j].status \in Terminal
           => statusFile[j].completed_at # None /\ statusFile[j].duration_seconds
        /\ statusFile[j].status \in {"Pending", "Processing"}
           => statusFile[j].completed_at = None

\* C4: at most one job is between pipeline start and its terminal write, and
\* jobs enter their pipelines in the order start_batch_job queued them.
C4_OneAtATimeFifo ==
    /\ Cardinality({j \in Range(entered) : terminalWrites[j] = 0}) <= 1
    /\ Cardinality({j \in JobIds : statusFile[j].status = "Processing"}) <= 1
    /\ Len(entered) <= Len(enqueued)
    /\ \A k \in 1..Len(entered) : entered[k] = enqueued[k]

C4_Witness ==
    /\ Len(entered) = 2
    /\ enqueued[1] = 2
    /\ terminalWrites[entered[1]] = 1
    /\ statusFile[entered[2]].status = "Processing"

\* C5: the files of a batch in flight at once never exceed
\* max_concurrent_requests, and a file is started only when every file of the
\* earlier batches has produced its candidate.
C5_BoundedFanOut ==
    /\ Cardinality(InFlight) <= settings.max_concurrent_requests
    /\ \A i, k \in 1..w.total_files :
          (w.fstate[i].st # "queued" /\ BatchOf(k) < BatchOf(i))
          => w.fstate[k].st = "done"

C5_Witness ==
    /\ settings.max_concurrent_requests = 1
    /\ settings.spreadsheet_batch_size = 2
    /\ Cardinality(InFlight) = 1
    /\ \E i \in BatchFiles(w.batch) : w.fstate[i].st = "queued"

C7_ProgressMonotone ==
    /\ [](\A j \in JobIds :
            /\ (statusFile[j].status = "Processing" /\ statusFile[j].total_files > 0)
               => \E q \in 0..99 :
                     /\ statusFile[j].progress = q
                     /\ \/ q = 99 /\ statusFile[j].processed_files * 100
                                     >= 99 * statusFile[j].total_files
                        \/ /\ q * statusFile[j].total_files
                                <= statusFile[j].processed_files * 100
                           /\ statusFile[j].processed_files * 100
                                < (q + 1) * statusFile[j].total_files
            /\ (statusFile[j].status = "Processing" /\ statusFile[j].total_files = 0)
               => statusFile[j].progress = 0
            /\ statusFile[j].status \in {"Failed", "Revoked"}
               => statusFile[j].progress <= 99)
    /\ [][\A j \in JobIds :
            (statusFile[j].status # "absent" /\ statusFile'[j].status # "absent")
            => /\ statusFile'[j].progress >= statusFile[j].progress
               /\ statusFile'[j].processed_files
                    >= statusFile[j].processed_files]_vars

C7_Witness ==
    /\ statusFile[1].status = "Processing"
    /\ statusFile[1].total_files = 2
    /\ statusFile[1].processed_files = 2
    /\ statusFile[1].progress = 99

\* C8: a job for which cancel_job returned true never has the persisted
\* status Completed (its terminal status is Revoked).
C8_CancelledNeverCompletes ==
    \A j \in cancelTrue : statusFile[j].status # "Completed"

\* C9: once a job's pipeline has returned, and in every state where its
\* persisted status is Completed, Failed or Revoked, the registry holds no
\* token for it, so the lookup of cancel_job finds nothing.
C9_NoHandleAfterExit ==
    /\ w.pc \in {"t_results", "t_status", "t_fail"}
       => ~lookup(w.job)
    /\ \A j \in JobIds :
          (statusFile[j].status \in Terminal \/ Finished(j)) => ~lookup(j)

C9_Witness ==
    /\ statusFile[1].status = "Revoked"
    /\ 1 \in cancelTrue
    /\ ~lookup(1)
    /\ w.pc = "recv"

\* C10: a job is written Revoked only when its pipeline aborted at the
\* cancellation check; after any other abort it is written Failed.
C10_RevokedOnlyAtCancelCheck ==
    \A j \in JobIds :
        /\ statusFile[j].status = "Revoked"
           => statusFile[j].error = "job canceled"
        /\ (statusFile[j].status \in Terminal
            /\ statusFile[j].error \notin {"", "job canceled"})
           => statusFile[j].status = "Failed"

\* C11: a job that ends Failed or Revoked after candidates were accumulated
\* has them persisted: get_job_results returns them, as many as the
\* results_count of the terminal status.
C11_PartialResultsPersisted ==
    \A j \in JobIds :
        (statusFile[j].status \in {"Failed", "Revoked"}
         /\ statusFile[j].results_count > 0)
        => /\ get_job_results(j).result = "Ok"
           /\ Len(get_job_results(j).items) = statusFile[j].results_count

\* the candidate produced for file i, if any
CandidatesOf(i) ==
    {c \in Range(w.results) \cup Range(w.batch_results) : c.file = i}

\* the reasons run_batch_pipeline itself returns Err with
JobAborts ==
    {"status write failed", "sign-in required", "re-auth required",
     "provider error", "listing failed", "results write failed",
     "create failed", "append failed", "job canceled"}

\* C12: a file that fails (download error, parser error, missing id, retries
\* exhausted) yields one candidate with its identity and an error; no job
\* ends Failed or Revoked for a file's failure, the later files are still
\* processed, and a Completed job has one result per listed file.
C12_FileFailureStaysLocal ==
    /\ \A i \in 1..w.total_files :
          w.fstate[i].st = "done"
          => /\ Cardinality(CandidatesOf(i)) = 1
             /\ w.files[i] = "noid" => \A c \in CandidatesOf(i) : c.kind = "noid"
             /\ w.files[i] = "id"
                => \A c \in CandidatesOf(i) : c.kind \in {"error", "parsed"}
    /\ \A j \in JobIds :
          /\ statusFile[j].status \in {"Failed", "Revoked"}
             => statusFile[j].error \in JobAborts
          /\ statusFile[j].status = "Completed"
             => statusFile[j].results_count = statusFile[j].total_files

C12_Witness ==
    /\ statusFile[1].status = "Completed"
    /\ resultsFile[1].items = <<Candidate(1, "error"), Candidate(2, "parsed")>>
    /\ settings.spreadsheet_batch_size = 1

\* the failures the retry procedure is to retry: HTTP 429 or 5xx, or a
\* connect or timeout transport failure
RetryableFailure(e) ==
    \/ e.kind = "GoogleApi" /\ (e.status = 429 \/ e.status \in 500..599)
    \/ e.kind = "reqwest" /\ e.cause \in {"timeout", "connect"}

\* C13: no download attempt for a file without an id, otherwise between one
\* and max_retries attempts; a further attempt follows only a retryable
\* failure, a file is given up before max_retries attempts only on a failure
\* that is not retryable, and a finished file is not attempted again.
C13_RetryProcedure ==
    /\ [](\A i \in 1..w.total_files :
            /\ w.files[i] = "noid" => w.fstate[i].tries = 0
            /\ (w.files[i] = "id" /\ w.fstate[i].st # "queued")
               => (1 <= w.fstate[i].tries
                   /\ w.fstate[i].tries <= settings.max_retries)
            /\ (w.fstate[i].st = "running" /\ w.fstate[i].tries > 1)
               => RetryableFailure(w.fstate[i].err)
            /\ (w.fstate[i].st = "done"
                /\ Candidate(i, "error") \in CandidatesOf(i))
               => /\ w.fstate[i].err # NoError
                  /\ RetryableFailure(w.fstate[i].err)
                     => w.fstate[i].tries = settings.max_retries
                  /\ w.fstate[i].tries < settings.max_retries
                     => ~RetryableFailure(w.fstate[i].err))
    /\ [][\A i \in 1..w.total_files :
            /\ (w.fstate[i].st = "done" /\ w'.job = w.job)
               => w'.fstate[i] = w.fstate[i]
            /\ (w'.job = w.job /\ w'.fstate[i].tries > w.fstate[i].tries)
               => w'.fstate[i].tries = w.fstate[i].tries + 1]_vars

C13_Witness ==
    /\ settings.max_retries = MaxRetries
    /\ w.total_files = 1
    /\ w.fstate[1].st = "done"
    /\ w.fstate[1].tries = 2
    /\ w.fstate[1].err = GoogleApi(404)
    /\ Candidate(1, "error") \in CandidatesOf(1)

\* C14: a start_batch_job call whose folder_id is empty or only whitespace
\* fails with InvalidRequest and changes nothing: no id is returned, no
\* status or results record exists for it, and nothing is queued.
C14_InvalidFolderRejected ==
    /\ [](\A j \in JobIds :
            (calls[j].pc \notin {"new", "unused"}
             /\ \A k \in 1..Len(calls[j].folder_id) :
                    calls[j].folder_id[k] \in {" ", "\t"})
            => /\ calls[j].pc = "invalid"
               /\ j \notin returned
               /\ j \notin Range(enqueued)
               /\ statusFile[j].status = "absent"
               /\ ~resultsFile[j].present)
    /\ [][\A j \in JobIds :
            (calls[j].pc = "new" /\ calls'[j].pc = "invalid")
            => UNCHANGED <<storeVars, queue, registryVars, w, returned,
                           historyVars, remote>>]_vars

C14_Witness ==
    /\ calls[1].pc = "invalid"
    /\ calls[1].folder_id = <<"\t", " ">>
    /\ statusFile[1].status = "absent"

\* C15: a job whose pipeline failed to acquire the bearer token (sign-in
\* required or re-auth required) ends Failed with that reason as its error,
\* after a single token acquisition and without any listing, spreadsheet or
\* download call.
C15_TokenFailureFailsJob ==
    \A j \in JobIds :
        (statusFile[j].status \in Terminal
         /\ statusFile[j].error \in {"sign-in required", "re-auth required"})
        => /\ statusFile[j].status = "Failed"
           /\ remote[j] = [NoCalls EXCEPT !.token = 1]

\* C16: a job whose listing returned no files ends Completed with
\* total_files, processed_files and results_count 0 and an empty results
\* array persisted; no spreadsheet is created and no row is appended for it.
C16_EmptyListingCompletes ==
    \A j \in JobIds :
        drive = <<>>
        => /\ remote[j].create = 0 /\ remote[j].append = 0
           /\ (statusFile[j].status \in Terminal
               /\ remote[j].list = 1
               /\ statusFile[j].error
                    \notin {"listing failed", "results write failed"})
              => /\ statusFile[j].status = "Completed"
                 /\ statusFile[j].total_files = 0
                 /\ statusFile[j].processed_files = 0
                 /\ statusFile[j].results_count = 0
                 /\ resultsFile[j] = [present |-> TRUE, items |-> <<>>]
                 /\ get_job_results(j) = [result |-> "Ok", items |-> <<>>]
                 /\ statusFile[j].spreadsheet_id = calls[j].sheet

C16_Witness ==
    /\ drive = <<>>
    /\ statusFile[1].status = "Completed"
    /\ calls[1].sheet = ""
    /\ remote[1].list = 1
    /\ w.pc = "recv"

\* C17: a get_access_token_non_interactive call, with a client id configured
\* and a keyring that can be read, fails 'sign-in required' when nothing is
\* stored, returns the stored access token when it expires more than five
\* minutes from now, fails 're-auth required' when the stored token expires
\* within five minutes and has no refresh token, and posts to the refresh
\* endpoint in the remaining case and in no other; none of this writes the
\* keyring.
C17_NonInteractiveToken ==
    [][\A c \in Callers :
         (/\ lastStep'.caller = c
          /\ lastStep'.op \in {"get", "post"}
          /\ validate_settings
          /\ lastStep'.result # Err("keyring"))
         => /\ keyring' = keyring
            /\ keyring = NoEntry
                 => lastStep'.op = "get"
                    /\ lastStep'.result = Err("SignInRequired")
            /\ (keyring # NoEntry /\ keyring.expires_at_utc > refresh_window)
                 => lastStep'.op = "get"
                    /\ lastStep'.result = Ok(keyring.access_token)
            /\ (/\ keyring # NoEntry
                /\ keyring.expires_at_utc <= refresh_window
                /\ keyring.refresh_token = NoRefreshToken)
                 => lastStep'.op = "get"
                    /\ lastStep'.result = Err("ReauthRequired")
            /\ (/\ keyring # NoEntry
                /\ keyring.expires_at_utc <= refresh_window
                /\ keyring.refresh_token # NoRefreshToken)
                 => lastStep'.op = "post"
                    /\ auth'[c].refresh_token = keyring.refresh_token
    ]_vars

\* a refresh was posted for a token expiring in exactly five minutes
C17_Witness ==
    /\ lastStep.op = "post"
    /\ keyring # NoEntry
    /\ keyring.expires_at_utc = refresh_window
    /\ \E c \in Callers : auth[c].pc = "refreshing"

\* the token endpoint answers HTTP 400 with an invalid_grant error
InvalidGrant(reply) ==
    /\ reply.kind = "http"
    /\ reply.status = 400
    /\ reply.body.json
    /\ contains(to_ascii_lowercase(reply.body.error), "invalid_grant")

\* C18: when a refresh is answered with HTTP 400 and an invalid_grant error,
\* the call fails 're-auth required' and leaves the keyring empty; from then
\* on, until a sign-in stores a token, the keyring stays empty, status()
\* reports signed-out and every get_access_token_non_interactive call that
\* can read the keyring fails 'sign-in required'.
C18_InvalidGrantSignsOut ==
    /\ [][(/\ lastStep'.op = "refresh"
           /\ InvalidGrant(lastStep'.reply)
           /\ lastStep'.result # Err("keyring"))
          => /\ lastStep'.result = Err("ReauthRequired")
             /\ keyring' = NoEntry
             /\ cleared']_vars
    /\ [](cleared => keyring = NoEntry /\ ~status.signed_in)
    /\ [][(/\ cleared
           /\ lastStep'.op \in {"get", "post"}
           /\ lastStep'.result # Err("keyring"))
          => lastStep'.result = Err("SignInRequired")]_vars

\* a refresh failure that is not an invalidated grant: a transport error, a
\* status other than 400 and 401, a 400 or 401 whose body has neither marker,
\* or a success status with a body that is no token response
NotInvalidatedGrant(reply) ==
    \/ reply.kind = "transport"
    \/ /\ reply.kind = "http"
       /\ \/ ~is_success(reply.status) /\ reply.status \notin {400, 401}
          \/ reply.status \in {400, 401} /\ ~HasMarker(reply.body)
          \/ is_success(reply.status) /\ ~reply.body.json

\* the error refresh_token builds for such a failure
RefreshFailure(reply) ==
    IF reply.kind = "transport" THEN Err("reqwest")
    ELSE IF is_success(reply.status) THEN Err("serde_json")
    ELSE ProviderError(reply.status)

\* C19: a refresh failure that is not an invalidated grant is returned to the
\* caller as refresh_token built it and leaves the keyring exactly as it was.
C19_OtherFailureKeepsToken ==
    [][(lastStep'.op = "refresh" /\ NotInvalidatedGrant(lastStep'.reply))
       => /\ lastStep'.result = RefreshFailure(lastStep'.reply)
          /\ keyring' = keyring]_vars

\* C20: a refresh is posted with the refresh token the keyring holds, and
\* when it succeeds the token it stores has the refresh token of the
\* response if the response has one, and otherwise the refresh token that was
\* stored when the refresh began; it never stores a token without one.
C20_RefreshTokenCarriedForward ==
    [][\A c \in Callers :
         /\ (lastStep'.op = "post" /\ lastStep'.caller = c)
              => /\ keyring.refresh_token # NoRefreshToken
                 /\ auth'[c].refresh_token = keyring.refresh_token
         /\ (/\ lastStep'.op = "refresh"
             /\ lastStep'.caller = c
             /\ lastStep'.result.ok)
              => /\ keyring' # NoEntry
                 /\ keyring'.refresh_token # NoRefreshToken
                 /\ keyring'.refresh_token =
                       IF lastStep'.reply.body.refresh_token # NoRefreshToken
                       THEN lastStep'.reply.body.refresh_token
                       ELSE auth[c].refresh_token
                 /\ keyring'.access_token = lastStep'.result.value
    ]_vars

\* a refresh whose response had no refresh token has been stored
C20_Witness ==
    /\ lastStep.op = "refresh"
    /\ lastStep.result.ok
    /\ lastStep.reply.body.refresh_token = NoRefreshToken
    /\ keyring # NoEntry
    /\ keyring.refresh_token \in RefreshTokens

\* C21: complete_manual_sign_in, with a client id configured, fails 'session
\* not found' for a session id that is not in the map, and for a session past
\* its expiry fails 'challenge expired', posts no code and removes the
\* session; a session id once removed is never in the map again, so every
\* later attempt with it fails 'session not found'.
C21_ExpiredSessionEvicted ==
    [][/\ (/\ lastStep'.op \in {"complete_manual", "complete_manual_post"}
           /\ lastStep'.reply = NoReply
           /\ validate_settings)
          => LET id == lastStep'.session_id IN
             /\ ~manual_sessions[id].present
                  => /\ lastStep'.result = Err("SessionNotFound")
                     /\ UNCHANGED <<keyring, manual, manual_sessions>>
             /\ (manual_sessions[id].present
                 /\ manual_sessions[id].expires_at <= 0)
                  => /\ lastStep'.result = Err("ChallengeExpired")
                     /\ ~manual_sessions'[id].present
                     /\ UNCHANGED <<keyring, manual>>
       /\ \A id \in SessionIds :
             (id <= issued /\ ~manual_sessions[id].present)
                => ~manual_sessions'[id].present
    ]_vars

\* a completion has just failed 'challenge expired' and its session is gone
C21_Witness ==
    /\ lastStep.op = "complete_manual"
    /\ lastStep.result = Err("ChallengeExpired")
    /\ lastStep.session_id \in SessionIds
    /\ ~manual_sessions[lastStep.session_id].present

\* a callback URL carrying a state other than the one issued
Mismatched(input, issued_state) ==
    /\ input.kind = "url"
    /\ input.state # NoState
    /\ input.state # issued_state

\* a complete_manual_sign_in call has just handled such a callback for a
\* live session
ManualMismatch ==
    /\ lastStep'.op \in {"complete_manual", "complete_manual_post"}
    /\ lastStep'.reply = NoReply
    /\ validate_settings
    /\ manual_sessions[lastStep'.session_id].present
    /\ manual_sessions[lastStep'.session_id].expires_at > 0
    /\ Mismatched(lastStep'.input,
                  manual_sessions[lastStep'.session_id].state)

\* the loopback listener of sign_in has just received such a callback
InteractiveMismatch ==
    /\ lastStep'.op \in {"sign_in", "sign_in_post"}
    /\ interactive.pc = "waiting"
    /\ Mismatched(lastStep'.input, interactive.state)

\* C22 as stated: in both flows a callback whose state differs from the
\* issued one yields the state-mismatch outcome, no code is posted to the
\* token endpoint and the keyring is unchanged.
C22_StateMismatchOutcome ==
    [][/\ ManualMismatch
            => /\ lastStep'.result = Err("StateMismatch")
               /\ manual'["first"].pc # "exchanging"
               /\ keyring' = keyring
       /\ InteractiveMismatch
            => /\ lastStep'.result = ManualRequired("state_mismatch")
               /\ interactive'.pc # "exchanging"
               /\ keyring' = keyring
    ]_vars

\* C22 amended: in both flows a callback whose state differs from the issued
\* one posts no code to the token endpoint and leaves the keyring unchanged;
\* the outcome is state-mismatch unless the callback also carries an error
\* member or, in the interactive flow, no code, and then it is
\* invalid-callback.
C22_StateMismatchNeverExchanges ==
    [][/\ ManualMismatch
            => /\ lastStep'.result =
                     IF lastStep'.input.error # ""
                     THEN Err("InvalidCallback")
                     ELSE Err("StateMismatch")
               /\ manual'["first"].pc # "exchanging"
               /\ keyring' = keyring
       /\ InteractiveMismatch
            => /\ lastStep'.result =
                     IF lastStep'.input.error # "" \/ lastStep'.input.code = ""
                     THEN ManualRequired("invalid_callback")
                     ELSE ManualRequired("state_mismatch")
               /\ interactive'.pc # "exchanging"
               /\ keyring' = keyring
    ]_vars

\* a manual completion has just been refused for its state
C22_Witness ==
    /\ lastStep.op = "complete_manual"
    /\ lastStep.result = Err("StateMismatch")
    /\ lastStep.input.kind = "url"
    /\ lastStep.input.code = "c"
    /\ manual["first"].pc = "idle"

\* C23: when a complete_manual_sign_in call that found a live session
\* returns, with success or with any failure, the session is no longer in the
\* session map.
C23_SessionConsumed ==
    [][(/\ lastStep'.op = "complete_manual"
        /\ \/ manual["first"].pc = "exchanging"
           \/ /\ manual["first"].pc = "idle"
              /\ validate_settings
              /\ manual_sessions[lastStep'.session_id].present
              /\ manual_sessions[lastStep'.session_id].expires_at > 0)
       => ~manual_sessions'[lastStep'.session_id].present
    ]_vars

\* C24: sign_in without a client id fails with the configuration error and
\* starts nothing; when the listener cannot be bound, the browser cannot be
\* opened, the wait for the callback times out, the callback's state is not
\* the issued one or the callback is malformed, it returns ManualRequired
\* with the matching reason code and not an error; none of these writes the
\* keyring, which sign_in writes only with the token of a successful exchange.
C24_SignInFallback ==
    [][lastStep'.op \in {"sign_in", "sign_in_open", "sign_in_post"}
       => /\ (interactive.pc = "idle" /\ ~validate_settings)
               => /\ lastStep'.result = Err("MissingGoogleClientId")
                  /\ UNCHANGED <<interactive, keyring>>
          /\ lastStep'.input.kind \in {"bind", "browser"}
               => /\ lastStep'.result = ManualRequired("loopback_unavailable")
                  /\ keyring' = keyring
          /\ lastStep'.input.kind = "LoopbackTimeout"
               => /\ lastStep'.result = ManualRequired("loopback_timeout")
                  /\ keyring' = keyring
          /\ (/\ interactive.pc = "waiting"
              /\ lastStep'.input.kind \in {"url", "badurl"}
              /\ ~parse_callback_url_or_code(lastStep'.input, NoState).ok)
               => /\ lastStep'.result = ManualRequired("invalid_callback")
                  /\ interactive'.pc = "idle"
                  /\ keyring' = keyring
          /\ (/\ interactive.pc = "waiting"
              /\ lastStep'.input.kind = "url"
              /\ parse_callback_url_or_code(lastStep'.input, NoState).ok
              /\ lastStep'.input.state # interactive.state)
               => /\ lastStep'.result = ManualRequired("state_mismatch")
                  /\ interactive'.pc = "idle"
                  /\ keyring' = keyring
          /\ keyring' # keyring
               => /\ interactive.pc = "exchanging"
                  /\ is_success(lastStep'.reply.status)
                  /\ lastStep'.reply.body.json
                  /\ lastStep'.result = SignedIn
                  /\ keyring'.access_token = lastStep'.reply.body.access_token
    ]_vars

\* sign_in has just returned ManualRequired after a timeout
C24_Witness ==
    /\ lastStep.op = "sign_in"
    /\ lastStep.input.kind = "LoopbackTimeout"
    /\ lastStep.result = ManualRequired("loopback_timeout")
    /\ interactive.pc = "idle"

\* C25: a sign_out that can reach the keyring succeeds, whether or not a
\* token is stored, and leaves the keyring and the manual-session map empty;
\* a second sign_out right after it changes neither; in the state it leaves,
\* with a client id configured, get_access_token_non_interactive fails
\* 'sign-in required' and complete_manual_sign_in fails 'session not found'
\* for every session id.
C25_SignOutClearsAll ==
    [][/\ (lastStep'.op = "sign_out" /\ lastStep'.result # Err("keyring"))
            => /\ lastStep'.result.ok
               /\ keyring' = NoEntry
               /\ \A k \in SessionIds : ~manual_sessions'[k].present
               /\ ~status'.signed_in
       /\ (/\ lastStep.op = "sign_out"
           /\ lastStep.result.ok
           /\ lastStep'.op = "sign_out")
            => UNCHANGED <<keyring, manual_sessions>>
       /\ (/\ lastStep.op = "sign_out"
           /\ lastStep.result.ok
           /\ lastStep'.op = "get"
           /\ validate_settings
           /\ lastStep'.result # Err("keyring"))
            => lastStep'.result = Err("SignInRequired")
       /\ (/\ lastStep.op = "sign_out"
           /\ lastStep.result.ok
           /\ lastStep'.op \in {"complete_manual", "complete_manual_post"}
           /\ validate_settings
           /\ lastStep'.reply = NoReply)
            => lastStep'.result = Err("SessionNotFound")
    ]_vars

\* sign_out has just succeeded after manual sessions had been issued
C25_Witness ==
    /\ lastStep.op = "sign_out"
    /\ lastStep.result.ok
    /\ issued > 0
    /\ keyring = NoEntry
    /\ \A k \in SessionIds : ~manual_sessions[k].present

\* C26: a status() call that can read the keyring changes neither the
\* keyring nor the session map, starts no call to the provider in any flow,
\* and reports signed_in exactly when a token is stored, expired or not.
C26_StatusIsPureRead ==
    [][(lastStep'.op = "status" /\ lastStep'.result # Err("keyring"))
       => /\ UNCHANGED <<keyring, manual_sessions, issued, auth, manual,
                         interactive, remote>>
          /\ lastStep'.result.signed_in = (keyring # NoEntry)
          /\ keyring # NoEntry
               => lastStep'.result.expires_at = keyring.expires_at_utc
    ]_vars

\* status() has just reported signed-in for a stored token that is expired
C26_Witness ==
    /\ lastStep.op = "status"
    /\ lastStep.result.ok
    /\ lastStep.result.signed_in
    /\ keyring # NoEntry
    /\ keyring.expires_at_utc = 0

\* C27: get_job_results fails with JobNotFound for a job id that has neither
\* a status record nor a results record, fails with JobNotCompleted for a
\* Pending or Processing job that has no results persisted, and for every
\* Completed job returns Ok with exactly the persisted results (none, if the
\* job has no results record).
C27_ResultsByState ==
    \A j \in JobIds :
        /\ (statusFile[j].status = "absent" /\ ~resultsFile[j].present)
              => get_job_results(j).result = "JobNotFound"
        /\ (statusFile[j].status \in {"Pending", "Processing"}
              /\ ~resultsFile[j].present)
              => get_job_results(j).result = "JobNotCompleted"
        /\ statusFile[j].status = "Completed"
              => get_job_results(j) =
                    [result |-> "Ok", items |-> resultsFile[j].items]

\* one job is Completed with a candidate persisted and read back, another is
\* still Pending and refused
C27_Witness ==
    \E j, k \in JobIds :
        /\ statusFile[j].status = "Completed"
        /\ Len(get_job_results(j).items) = 1
        /\ statusFile[k].status = "Pending"
        /\ get_job_results(k).result = "JobNotCompleted"

\* position of job id j in the sequence of ids q
IndexOf(q, j) == CHOOSE a \in 1..Len(q) : q[a] = j

\* job j was created later than job k: fewer hours have passed since its
\* created_at
CreatedLater(statuses, j, k) ==
    /\ statuses[j].created_at # None
    /\ statuses[k].created_at # None
    /\ statuses[j].created_at < statuses[k].created_at

\* C28: list_jobs returns the ids of all the jobs that remain after the
\* retention sweep, each once, newest first: a job created later always
\* appears before a job created earlier.
C28_ListedNewestFirst ==
    [][ListJobs
         => /\ Range(listing') = Directories(statusFile', resultsFile')
            /\ Len(listing') = Cardinality(Range(listing'))
            /\ \A j, k \in Range(listing') :
                  CreatedLater(statusFile', j, k)
                     => IndexOf(listing', j) < IndexOf(listing', k)
    ]_vars

\* C29: after every list_jobs call no job record remains whose reference
\* time (completed_at, else created_at) lies more than job_retention_hours in
\* the past, and every record whose reference time is within the retention
\* is still there, with its status and its results unchanged.
C29_SweepRemovesOnlyExpired ==
    [][ListJobs
         => \A j \in JobIds :
               /\ statusFile'[j].status # "absent"
                     => SinceReference(statusFile'[j]) <= job_retention_hours
               /\ (/\ statusFile[j].status # "absent"
                   /\ SinceReference(statusFile[j]) <= job_retention_hours)
                     => /\ statusFile'[j] = statusFile[j]
                        /\ resultsFile'[j] = resultsFile[j]
    ]_vars

\* list_jobs has just returned: a job that had been accepted is gone, and a
\* job exactly job_retention_hours old is listed, with its record
C29_Witness ==
    \E j, k \in JobIds :
        /\ j \in returned
        /\ statusFile[j].status = "absent"
        /\ statusFile[k].status # "absent"
        /\ SinceReference(statusFile[k]) = job_retention_hours
        /\ listing = <<k>>

\* the batch of the file at position i of the listing, when the listing is
\* cut into consecutive runs of spreadsheet_batch_size files
ExpectedBatch(i) == ((i - 1) \div settings.spreadsheet_batch_size) + 1

\* the folder and the settings of the scenario: three files, at most two
\* requests at a time, batches of two, three attempts per file
ThreeFileScenario ==
    /\ drive = <<"id", "id", "id">>
    /\ settings.max_concurrent_requests = 2
    /\ settings.spreadsheet_batch_size = 2
    /\ settings.max_retries = 3

\* every file was parsed in the end, one of them on its third attempt after
\* two retryable failures, the others at once
OneFileRetriedTwice ==
    /\ \A k \in 1..Len(w.results) : w.results[k].kind = "parsed"
    /\ \E i \in 1..w.total_files :
          /\ w.fstate[i].tries = 3
          /\ \A k \in 1..w.total_files : k # i => w.fstate[k].tries = 1

\* C30: the files are split, in listing order, into consecutive batches of
\* spreadsheet_batch_size; the batches are processed strictly in order (no
\* file of a batch is started before every file of the batches before it is
\* finished and their rows are appended); each batch makes at most one data
\* append call, carrying rows of that batch only.  With three files,
\* max_concurrent_requests 2, spreadsheet_batch_size 2 and max_retries 3,
\* where one file fails twice with a retryable error and parses on its third
\* attempt, the job ends Completed with processed_files 3 after exactly two
\* data append calls, of two rows and then of one row.
C30_BatchesInOrder ==
    /\ [](\A j \in JobIds :
            LET rows == remote[j].rows IN
            /\ \A p \in 1..Len(rows) :
                  /\ Cardinality(rows[p]) <= settings.spreadsheet_batch_size
                  /\ \A i, k \in rows[p] : ExpectedBatch(i) = ExpectedBatch(k)
            /\ \A p, q \in 1..Len(rows) :
                  p < q => \A i \in rows[p], k \in rows[q] :
                              ExpectedBatch(i) < ExpectedBatch(k))
    /\ [](w.total_files > 0 => w.files = drive)
    /\ [](\A i, k \in 1..w.total_files :
            (ExpectedBatch(i) < ExpectedBatch(k) /\ w.fstate[k].st # "queued")
               => /\ w.fstate[i].st = "done"
                  /\ w.files[i] = "id"
                        => \E p \in 1..Len(remote[w.job].rows) :
                              i \in remote[w.job].rows[p])
    /\ [][(ThreeFileScenario /\ w.pc = "t_status" /\ OneFileRetriedTwice)
             => /\ statusFile'[w.job].status = "Completed"
                /\ statusFile'[w.job].processed_files = 3
                /\ remote'[w.job].rows = <<{1, 2}, {3}>>
       ]_vars

\* the scenario has run to its end: three candidates parsed with five
\* downloads, the job Completed, two rows appended and then one
C30_Witness ==
    /\ ThreeFileScenario
    /\ statusFile[1].status = "Completed"
    /\ statusFile[1].processed_files = 3
    /\ \A k \in 1..Len(resultsFile[1].items) :
          resultsFile[1].items[k].kind = "parsed"
    /\ remote[1].download = 5
    /\ remote[1].rows = <<{1, 2}, {3}>>

\* C31: cancel_job leaves the cancellation registry as it is; an entry is
\* inserted only by the consumer when it starts a job (for that job) and
\* removed only by the consumer once that job's pipeline has exited, and the
\* registry never holds more than one entry.
C31_RegistryOwnedByConsumer ==
    /\ [](Cardinality(cancellation_tokens) <= 1)
    /\ [][/\ canceller' # canceller
             => cancellation_tokens' = cancellation_tokens
          /\ cancellation_tokens' # cancellation_tokens
             => \/ /\ w.pc = "load" /\ w'.pc = "p_start"
                   /\ cancellation_tokens' = cancellation_tokens \cup {w.job}
                \/ /\ w.pc = "remove"
                   /\ cancellation_tokens' = cancellation_tokens \ {w.job}
       ]_vars

\* cancel_job has returned true for the running job, whose entry is still in
\* the registry, while another job waits in the queue
C31_Witness ==
    /\ canceller.pc = "idle"
    /\ w.job \in cancelTrue
    /\ cancellation_tokens = {w.job}
    /\ queue # <<>>

\* the job being processed has been cancelled
WorkerCancelled == w.job # 0 /\ cancelled[w.job]

\* C32: a cancel signalled while a batch is in progress stops no file of that
\* batch: the batch is left only when every one of its files has finished
\* its retry procedure, with its candidates collected and its rows appended
\* (unless the append itself fails); then the batch's Processing status is
\* written (unless that write fails); "job canceled" is raised only at the
\* check that precedes a batch.
C32_CancelAtBatchBoundary ==
    [][/\ (w.err = "" /\ w'.err = "job canceled")
          => (w.pc = "b_check" /\ cancelled[w.job])
       /\ (WorkerCancelled /\ w.pc = "b_run")
          => /\ \A i \in 1..w.total_files :
                   /\ w.fstate[i].st = "done" => w'.fstate[i] = w.fstate[i]
                   /\ w'.fstate[i].st = "queued" => w.fstate[i].st = "queued"
             /\ w'.pc # "b_run"
                => /\ \A i \in BatchFiles(w.batch) : w.fstate[i].st = "done"
                   /\ remote'[w.job].rows # remote[w.job].rows
                         \/ Rows(w.batch_results) = {}
                   /\ \/ /\ w'.pc = "b_status"
                         /\ w'.results = w.results \o w.batch_results
                      \/ w'.err = "append failed"
       /\ (WorkerCancelled /\ w.pc = "b_status" /\ w' # w)
          => \/ /\ statusFile'[w.job].status = "Processing"
                /\ statusFile'[w.job].results_count = Len(w.results)
                /\ statusFile'[w.job].processed_files = w.processed_count
             \/ w'.err = "status write failed"
    ]_vars

\* the cancel arrived after the check of the first batch: its file has been
\* retried and parsed and its row appended, and the status is about to be
\* written
C32_Witness ==
    /\ w.pc = "b_status"
    /\ WorkerCancelled
    /\ w.job \in cancelTrue
    /\ w.batch = 1
    /\ w.total_files = 2
    /\ w.fstate[1].tries = 2
    /\ w.results = <<Candidate(1, "parsed")>>
    /\ remote[w.job].rows = <<{1}>>

\* q continues p: the rows of p are still there, in place
IsPrefix(p, q) == Len(p) <= Len(q) /\ SubSeq(q, 1, Len(p)) = p

\* C33: for a job started without a destination spreadsheet id a spreadsheet
\* is created and the header row is written to it before any data row, and
\* the header stays first: a later data append of the job neither replaces
\* nor precedes the header row, nor overwrites a row of an earlier batch.
C33_HeaderStaysFirst ==
    /\ [](\A j \in JobIds :
            (calls[j].sheet = "" /\ remote[j].values # <<>>)
               => /\ remote[j].create = 1
                  /\ remote[j].values[1] = HeaderRow)
    /\ [][\A j \in JobIds :
            calls[j].sheet = ""
               => IsPrefix(remote[j].values, remote'[j].values)]_vars

\* the candidates of the job being processed whose extraction succeeded
Extracted(cands) == {k \in 1..Len(cands) : cands[k].kind = "parsed"}

\* C34: the rows appended for a batch come only from candidates whose
\* extraction succeeded: a file whose procedure ended with an error record
\* contributes no row and is not counted in processed_files.
C34_RowsFromExtractedOnly ==
    /\ w.job # 0
       => /\ \A p \in 1..Len(remote[w.job].rows) :
                \A i \in remote[w.job].rows[p] :
                    Candidate(i, "error")
                        \notin Range(w.results) \cup Range(w.batch_results)
          /\ w.pc = "b_status"
                => w.processed_count = Cardinality(Extracted(w.results))
    /\ \A j \in JobIds :
          statusFile[j].status = "Completed"
             => statusFile[j].processed_files
                   = Cardinality(Extracted(resultsFile[j].items))

\* the consumer is inside run_batch_pipeline for job j or about to enter it
InPipeline(j) ==
    /\ w.job = j
    /\ w.pc \notin {"recv", "remove", "t_results", "t_status", "t_fail"}

\* C35: for a job that ends Completed the results record is written exactly
\* once, before the Completed status; no results record exists while the job
\* is Pending or still inside its pipeline; and whenever the status reads
\* Completed the results record is present.
C35_ResultsWrittenOnceBeforeCompleted ==
    /\ [](\A j \in JobIds :
            /\ (statusFile[j].status = "Pending" \/ InPipeline(j))
                  => ~resultsFile[j].present
            /\ statusFile[j].status = "Completed" => resultsFile[j].present)
    /\ [][/\ (w.pc = "t_results" /\ w'.pc = "t_status")
             => /\ ~resultsFile[w.job].present
                /\ resultsFile'[w.job].present
          /\ \A j \in JobIds :
                (statusFile[j].status # "Completed"
                 /\ statusFile'[j].status = "Completed")
                   => /\ resultsFile[j].present
                      /\ resultsFile'[j] = resultsFile[j]
       ]_vars

\* C36: under any interleaving of concurrent complete_manual_sign_in calls
\* for the same session id, the session's PKCE verifier goes to the token
\* endpoint in at most one code exchange (no two exchanges for the session
\* are in flight together), and at most one of the calls persists a token (a
\* call saves a token only for a session that is still in the map).
C36_OneExchangePerSession ==
    /\ [](\A c, d \in Completions :
            (/\ c # d
             /\ manual[c].pc = "exchanging"
             /\ manual[d].pc = "exchanging")
               => manual[c].session_id # manual[d].session_id)
    /\ [][\A c \in Completions :
            (/\ manual[c].pc = "exchanging"
             /\ manual'[c].pc = "idle"
             /\ lastStep'.result = Ok("signed_in"))
               => manual_sessions[manual[c].session_id].present]_vars

\* C37: a retention sweep never deletes the record of a job whose status is
\* Pending or Processing: a job that is queued or running keeps its status
\* record, and get_job_status does not answer JobNotFound for it.
C37_SweepSparesJobsInProgress ==
    [][\A j \in JobIds :
          statusFile[j].status \in {"Pending", "Processing"}
             => /\ statusFile'[j].status # "absent"
                /\ get_job_status(j)' = "Ok"]_vars

\* the job's work item is in the queue: accepted, not yet dequeued
Queued(j) == \E i \in 1..Len(queue) : queue[i].job_id = j

\* C38: while a job waits in the queue the registry has no handle for it, so
\* cancel_job for it takes the not-found branch: no call holds or signals a
\* handle of it, none returns true for it, and the call changes nothing of
\* the job, the store, the queue or the registry. When the consumer then
\* starts the job it inserts a handle that is not signalled and goes on to
\* the pipeline.
C38_QueuedJobNotCancellable ==
    /\ [](\A j \in JobIds :
             Queued(j) => /\ ~lookup(j)
                          /\ ~cancelled[j]
                          /\ j \notin cancelTrue
                          /\ canceller.pc = "found" => canceller.job # j)
    /\ [][/\ \A j \in JobIds :
                (Queued(j) /\ canceller' # canceller /\ canceller'.job = j)
                   => /\ canceller'.pc = "idle"
                      /\ UNCHANGED <<envVars, remote, storeVars, queue,
                                     registryVars, calls, w, returned,
                                     historyVars>>
          /\ (w.pc = "load" /\ w'.pc = "p_start")
                => /\ w.job \in cancellation_tokens'
                   /\ ~cancelled'[w.job]
       ]_vars

\* the job that waited behind a cancelled one is being processed with an
\* unsignalled handle, and the last cancel_job asked about it returned false
C38_Witness ==
    /\ Len(entered) = 2
    /\ entered[1] \in cancelTrue
    /\ w.job = entered[2]
    /\ w.pc = "b_run"
    /\ w.job \in cancellation_tokens
    /\ ~cancelled[w.job]
    /\ canceller = [pc |-> "idle", job |-> w.job]

\* a job waiting in the queue is eventually the one the consumer processes
ConsumerKeepsDequeuing ==
    \A j \in JobIds : Queued(j) ~> (w.job = j)

\* C39: every job whose work item start_batch_job has sent to the queue
\* eventually has a terminal status in its status record, and every job
\* waiting in the queue is eventually dequeued by the consumer, whatever
\* became of the jobs before it.
C39_EveryJobReachesTerminalStatus ==
    /\ \A j \in JobIds :
          Queued(j) ~> (statusFile[j].status \in Terminal)
    /\ ConsumerKeepsDequeuing

\* the step just taken persisted a token on behalf of someone other than
\* caller c: a sign-in completion, or another caller's successful refresh
PersistedByAnother(c) ==
    \/ lastStep.op = "sign_in"
    \/ /\ lastStep.op = "refresh"
       /\ lastStep.caller # c
       /\ lastStep.result.ok

\* C40: a get_access_token_non_interactive call whose refresh was rejected
\* does not delete a token that a concurrent successful refresh or a sign-in
\* persisted after the call had read the cache: when such a token, with a
\* refresh token other than the one the call sent, has just been stored
\* while the call was waiting for the token endpoint, the call's next step
\* leaves it in the keyring.
C40_ClearsOnlyRejectedToken ==
    [][\A c \in Callers :
          (/\ auth[c].pc = "refreshing"
           /\ PersistedByAnother(c)
           /\ keyring # NoEntry
           /\ keyring.refresh_token # auth[c].refresh_token
           /\ lastStep'.op = "refresh"
           /\ lastStep'.caller = c)
             => keyring' # NoEntry]_vars

====
